---- MODULE Spec2Model ----
(***************************************************************************)
(* Cabsync: ride-fare comparison front end.                                *)
(*                                                                         *)
(* The module models several parts of the repository, each with its own    *)
(* specification over the shared variables:                                *)
(*   SpecFare   generateMockCompareResponse          (src/services/api.ts) *)
(*   SpecFareTwice  the same call made twice, Math.random held constant    *)
(*   SpecApi    rideService.compareRides / apiRequest (src/services/api.ts)*)
(*   SpecGeo    searchLocations, mergeAndRankResults (services/geocoding)  *)
(*   SpecHook   useLocationSearch + debounce         (hooks, utils)        *)
(*   SpecBeckn  Beckn on_search callback correlation (backend, documented) *)
(*   SpecForm   SearchCard.handleSubmit, RidesPage.handleSearch            *)
(*   SpecDist   calculateDistance (utils, geocoding), computeDistanceKm    *)
(*   SpecGaz    generateMockSuggestions (geocoding, useLocationSearch)     *)
(*   SpecRev    reverseGeocode, getCurrentLocation   (services/geocoding)  *)
(*   SpecFmt    formatDuration                       (utils/index.ts)      *)
(*   SpecTheme  ThemeProvider, storage helpers  (hooks/useTheme.tsx, utils)*)
(*                                                                         *)
(* Numbers are fixed point.  Unless a name says otherwise: distances are   *)
(* in 1/100 km, money in paise (1/100 rupee), multipliers and random draws *)
(* in 1/100, minutes in 1/100 minute.                                      *)
(***************************************************************************)
EXTENDS Integers, Sequences, FiniteSets, TLC

VARIABLES
  \* ---- fare synthesizer (generateMockCompareResponse)
  farePc,        \* "idle" | "pending" (setTimeout armed) | "resolved"
  fareReq,       \* the RideRequest of the call in progress
  fareTape,      \* the values Math.random() returns, read cyclically
  fareK,         \* number of Math.random() calls made so far
  fareDist,      \* distanceKm computed at call time
  fareTM,        \* trafficMultiplier computed at call time
  fareResults,   \* results of the resolved CompareResponse
  farePrev,      \* what an earlier call with the same request resolved with
  \* ---- rideService.compareRides
  apiPc,         \* "idle" | "fetching" | "mock" | "resolved" | "rejected"
  apiMode,       \* import.meta.env.VITE_MODE as read by the call
  apiReq,        \* the request compareRides was called with
  apiFetches,    \* requests issued to the backend by the call
  apiFetched,    \* how the fetch of the call settled ("none" before)
  apiResponse,   \* what the promise settled with
  \* ---- searchLocations
  searchCache,   \* the Map, as the set of its entries [key, results, timestamp]
  geoNow,        \* Date.now(), milliseconds
  geoPending,    \* calls awaiting Promise.all of the two backend requests
  geoCalls,      \* calls made so far
  geoLast,       \* the call that returned last
  \* ---- Namma Yatri (Beckn) integration of the backend
  becknStore,    \* transaction_store: transaction id -> TransactionState
  becknWait,     \* transaction id -> seconds its fetch_quotes has waited
  becknAnswer,   \* transaction id -> what fetch_quotes and /api/compare returned
  becknReply,    \* the last on_search callback and the answer it got
  \* ---- useLocationSearch (one search field)
  hookQuery,       \* the query state
  hookSuggestions, \* the suggestions state
  hookLoading,     \* the isLoading state
  hookOpen,        \* the isOpen state
  hookLastQuery,   \* lastQueryRef.current
  hookController,  \* abortControllerRef.current: 0 for null, else its serial
  hookAborted,     \* the controllers abort() was called on
  hookTimers,      \* armed setTimeout callbacks [n, arg, due]
  hookFetches,     \* searchLocations calls that have not settled
  hookNow,         \* the clock, milliseconds since mount
  hookChanges,     \* number of query changes so far
  hookLastChange,  \* when the query last changed
  hookCall,        \* the last performSearch invocation
  hookSettled,     \* the last searchLocations call that settled
  \* ---- SearchCard and RidesPage
  formPickup,      \* the pickup state of SearchCard
  formDropoff,     \* the dropoff state of SearchCard
  formVehicleType, \* the vehicleType state of SearchCard
  formLoading,     \* the isLoading state of RidesPage
  formCalls,       \* number of onSearch calls so far
  formLast,        \* the arguments of the last onSearch call
  formResults,     \* the results state of RidesPage
  formError,       \* the error state of RidesPage
  formPending,     \* the compareRides calls that have not settled
  formSettled,     \* what the last compareRides call to settle settled with
  \* ---- great-circle distance functions
  distPc,          \* "idle" | "helpers" | "fare": which functions were applied
  distPickup,      \* first point
  distDropoff,     \* second point
  distHelper,      \* calculateDistance results, both argument orders
  distKm,          \* computeDistanceKm results, both argument orders
  \* ---- generateMockSuggestions (static gazetteers)
  gazSource,       \* "none" | "geocoding" | "hook": whose gazetteer was asked
  gazQuery,        \* the query
  gazResult,       \* what generateMockSuggestions returned
  \* ---- reverseGeocode, getCurrentLocation
  revPc,           \* "idle" | "locating" | "fetching" | "resolved" | "rejected"
  revVia,          \* "direct" (reverseGeocode called) | "current" (getCurrentLocation)
  revLat,          \* lat passed to reverseGeocode, 1/100000 degree
  revLng,          \* lng passed to reverseGeocode
  revOutcome,      \* how the request to /reverse went
  revInner,        \* how the reverseGeocode promise settled ("none" before)
  revResult,       \* the Location the outer promise resolved with
  revError,        \* the reason the outer promise rejected with
  \* ---- formatDuration
  fmtPc,           \* "idle" | "returned"
  fmtSeconds,      \* the argument of formatDuration, in half seconds
  fmtText,         \* the text it returned
  \* ---- ThemeProvider
  themeMounted,    \* a ThemeProvider is mounted (the page is open)
  themeDefault,    \* its defaultTheme prop
  themeTheme,      \* its theme state; kept after unmount as it last was
  themeHasPref,    \* its hasUserPreference state; kept after unmount
  themeStorage,    \* localStorage under 'ridemeta-theme': the item, or NoItem
  themeOS,         \* whether (prefers-color-scheme: dark) matches
  themeMounts,     \* number of mounts so far
  themeLast        \* the last operation on the provider or the item: "none" |
                   \* "mount" | "setTheme" | "toggleTheme" | "change" (the
                   \* listener ran) | "unmount" | "write"

fareVars == <<farePc, fareReq, fareTape, fareK, fareDist, fareTM, fareResults,
              farePrev>>
apiVars == <<apiPc, apiMode, apiReq, apiFetches, apiFetched, apiResponse>>

geoVars == <<searchCache, geoNow, geoPending, geoCalls, geoLast>>

becknVars == <<becknStore, becknWait, becknAnswer, becknReply>>

hookVars == <<hookQuery, hookSuggestions, hookLoading, hookOpen, hookLastQuery,
              hookController, hookAborted, hookTimers, hookFetches, hookNow,
              hookChanges, hookLastChange, hookCall, hookSettled>>

formVars == <<formPickup, formDropoff, formVehicleType, formLoading, formCalls, formLast,
              formResults, formError, formPending, formSettled>>

distVars == <<distPc, distPickup, distDropoff, distHelper, distKm>>

gazVars == <<gazSource, gazQuery, gazResult>>

revVars == <<revPc, revVia, revLat, revLng, revOutcome, revInner, revResult, revError>>

fmtVars == <<fmtPc, fmtSeconds, fmtText>>

themeVars == <<themeMounted, themeDefault, themeTheme, themeHasPref, themeStorage, themeOS,
               themeMounts, themeLast>>

vars == <<fareVars, apiVars, geoVars, becknVars, hookVars, formVars, distVars, gazVars, revVars, fmtVars, themeVars>>

Max(a, b) == IF a >= b THEN a ELSE b
Min(a, b) == IF a <= b THEN a ELSE b

\* NaN: parseFloat of a text that is not a number, the square root of a
\* negative number, and any arithmetic on NaN
NaN == 999999999

\* Math.max: NaN when either argument is NaN
MathMax(a, b) == IF a = NaN \/ b = NaN THEN NaN ELSE Max(a, b)

\* Math.round on a non-negative quotient num/den: floor(num/den + 1/2)
RoundDiv(num, den) == (2 * num + den) \div (2 * den)

(***************************************************************************)
(* Fare synthesizer                                                        *)
(***************************************************************************)

\* Length of the cyclic tape of Math.random() values
RandLen == 3
\* Math.random() is in [0, 1): the draws tried, in 1/100
DrawVals == {0, 50, 99}
RandTapes == [1..RandLen -> DrawVals]

\* the k-th call of Math.random() (k counts from 0)
Rand(tape, k) == tape[(k % RandLen) + 1]

\* earthRadiusKm * arc values tried for a request with both locations, 1/100 km
ArcVals == {0, 40, 75, 300, 1250, 2800}
Hours == 0..23
\* Date.getDay() values tried: Sunday, a weekday, Saturday
Days == {0, 3, 6}
VehicleTypes == {"none", "auto", "car", "bike", "suv", "CAR"}

NoRequest == [hasLocs |-> FALSE, arc |-> 0, hour |-> 0, day |-> 0, vehicleType |-> "none"]
Requests == [hasLocs : BOOLEAN, arc : ArcVals, hour : Hours, day : Days,
             vehicleType : VehicleTypes]

\* api.ts:116-245; perKm in 1/10 rupee, perMin in 1/100 rupee, surgeChance in 1/100
serviceCatalog == <<
  [provider |-> "uber", serviceType |-> "Uber Auto", vehicleType |-> "auto",
   baseFare |-> 38, perKm |-> 92, perMin |-> 115, minFare |-> 85, avgSpeed |-> 25,
   etaLo |-> 4, etaHi |-> 10, surgeChance |-> 25],
  [provider |-> "uber", serviceType |-> "Uber Go", vehicleType |-> "car",
   baseFare |-> 55, perKm |-> 118, perMin |-> 160, minFare |-> 120, avgSpeed |-> 30,
   etaLo |-> 5, etaHi |-> 12, surgeChance |-> 30],
  [provider |-> "ola", serviceType |-> "Ola Auto", vehicleType |-> "auto",
   baseFare |-> 34, perKm |-> 90, perMin |-> 105, minFare |-> 80, avgSpeed |-> 24,
   etaLo |-> 4, etaHi |-> 11, surgeChance |-> 28],
  [provider |-> "ola", serviceType |-> "Ola Bike", vehicleType |-> "bike",
   baseFare |-> 28, perKm |-> 71, perMin |-> 85, minFare |-> 65, avgSpeed |-> 32,
   etaLo |-> 3, etaHi |-> 9, surgeChance |-> 18],
  [provider |-> "rapido", serviceType |-> "Rapido Bike", vehicleType |-> "bike",
   baseFare |-> 25, perKm |-> 64, perMin |-> 76, minFare |-> 60, avgSpeed |-> 34,
   etaLo |-> 3, etaHi |-> 8, surgeChance |-> 16],
  [provider |-> "rapido", serviceType |-> "Rapido Auto", vehicleType |-> "auto",
   baseFare |-> 30, perKm |-> 84, perMin |-> 100, minFare |-> 70, avgSpeed |-> 24,
   etaLo |-> 4, etaHi |-> 10, surgeChance |-> 22],
  [provider |-> "indrive", serviceType |-> "inDrive Saver", vehicleType |-> "car",
   baseFare |-> 60, perKm |-> 122, perMin |-> 180, minFare |-> 150, avgSpeed |-> 29,
   etaLo |-> 6, etaHi |-> 13, surgeChance |-> 27],
  [provider |-> "indrive", serviceType |-> "inDrive Plus", vehicleType |-> "car",
   baseFare |-> 82, perKm |-> 158, perMin |-> 235, minFare |-> 200, avgSpeed |-> 31,
   etaLo |-> 7, etaHi |-> 14, surgeChance |-> 30] >>

\* Array.prototype.filter
RECURSIVE SelectServices(_, _)
SelectServices(s, types) ==
  IF s = <<>> THEN <<>>
  ELSE IF Head(s).vehicleType \in types
       THEN <<Head(s)>> \o SelectServices(Tail(s), types)
       ELSE SelectServices(Tail(s), types)

\* request.vehicleType?.toLowerCase()
preferredType(req) == IF req.vehicleType = "CAR" THEN "car" ELSE req.vehicleType

matches(req) ==
  IF preferredType(req) = "none" THEN serviceCatalog
  ELSE SelectServices(serviceCatalog, {preferredType(req)})

relaxedMatches(req) ==
  CASE preferredType(req) = "none" -> serviceCatalog
    [] preferredType(req) = "auto" -> SelectServices(serviceCatalog, {"auto", "car"})
    [] preferredType(req) = "car"  -> SelectServices(serviceCatalog, {"car", "suv"})
    [] OTHER -> SelectServices(serviceCatalog, {preferredType(req)})

chosenServices(req) == IF Len(matches(req)) > 0 THEN matches(req) ELSE relaxedMatches(req)

\* the floor of computeDistanceKm, 1/100 km
DistanceFloor == 75

\* computeDistanceKm: a missing location draws 6 + random*6, otherwise the
\* great-circle distance floored at 0.75 km
computeDistanceKm(req, tape, k) ==
  IF ~req.hasLocs THEN 600 + 6 * Rand(tape, k)
  ELSE MathMax(DistanceFloor, req.arc)

\* number of Math.random() calls computeDistanceKm makes
DistanceDraws(req) == IF req.hasLocs THEN 0 ELSE 1

\* the evening window closed one hour late (hour <= 21)
trafficMultiplierLatePeak(hour, day) ==
  LET peak  == (hour >= 7 /\ hour < 10) \/ (hour >= 17 /\ hour <= 21)
      night == hour >= 22 \/ hour < 5
      m1 == IF peak THEN 130 ELSE IF night THEN 85 ELSE 100
      m2 == IF day \in {0, 6} THEN m1 + 5 ELSE m1
  IN Max(80, Min(m2, 150))

\* api.ts:106-114, when.getHours() and when.getDay()
trafficMultiplier(hour, day) ==
  LET peak  == (hour >= 7 /\ hour < 10) \/ (hour >= 17 /\ hour < 21)
      night == hour >= 22 \/ hour < 5
      m1 == IF peak THEN 130 ELSE IF night THEN 85 ELSE 100
      m2 == IF day \in {0, 6} THEN m1 + 5 ELSE m1
  IN Max(80, Min(m2, 150))

\* tripMinutes, 1/100 minute (api.ts:270-271)
TripMinutes(service, dist, tm, r) ==
  LET speed == Max(service.avgSpeed, 20)
      base  == Max((dist * 60) \div speed, 600)
  IN (((base * tm) \div 100) * (9500 + 15 * r)) \div 10000

\* price before jitter, paise (api.ts:272)
BasePrice(service, dist, tm, trip) ==
  service.baseFare * 100
  + (dist * service.perKm * (600 + 5 * tm)) \div 10000
  + (((trip * service.perMin) \div 100) * (400 + 3 * tm)) \div 1000

\* line 273: Math.max(minFare, price) * (0.96 + random * 0.08), paise
JitteredPrice(service, price, r) ==
  (Max(service.minFare * 100, price) * (9600 + 8 * r)) \div 10000

\* line 277: parseFloat((1.1 + random * 0.4).toFixed(2)), 1/100
SurgeFactor(r) == 110 + RoundDiv(40 * r, 100)

\* line 276: the surge test; the random draw is made only when tm > 1.1
SurgeTested(tm) == tm > 110
SurgeHit(service, tm, r) == 100 * r < service.surgeChance * tm

PriceValueNoClamp(service, price) == RoundDiv(price, 500) * 5
\* rounded to the rupee instead of to five rupees
PriceValueToRupee(service, price) == RoundDiv(Max(service.minFare * 100, price), 100)
\* line 292: Math.round(Math.max(minFare, price) / 5) * 5, rupees
PriceValue(service, price) == RoundDiv(Max(service.minFare * 100, price), 500) * 5

\* one element of chosenServices.map(...); k0 is the number of Math.random()
\* calls made before it.  Returns the result and the new call count.
SynthesizeOne(service, dist, tm, tape, k0) ==
  LET trip   == TripMinutes(service, dist, tm, Rand(tape, k0))
      p0     == BasePrice(service, dist, tm, trip)
      p1     == JitteredPrice(service, p0, Rand(tape, k0 + 1))
      tested == SurgeTested(tm)
      hit    == tested /\ SurgeHit(service, tm, Rand(tape, k0 + 2))
      k1     == k0 + 2 + (IF tested THEN 1 ELSE 0)
      surge  == IF hit THEN SurgeFactor(Rand(tape, k1)) ELSE 0
      p2     == IF hit THEN (p1 * surge) \div 100 ELSE p1
      k2     == k1 + (IF hit THEN 1 ELSE 0)
      \* etaMinutes in 1/100000 minute
      etaRaw == (service.etaLo * 100 + Rand(tape, k2) * (service.etaHi - service.etaLo))
                  * (850 + 5 * (tm - 100))
      etaMin == Max(50000, etaRaw)
  IN [result |-> [provider    |-> service.provider,
                  serviceType |-> service.serviceType,
                  value       |-> PriceValue(service, p2),
                  etaSeconds  |-> Max(30, RoundDiv(etaMin * 60, 100000)),
                  etaNow      |-> etaMin <= 100000,
                  etaMins     |-> RoundDiv(etaMin, 100000),
                  distance    |-> dist * 10,
                  surge       |-> surge],
      k |-> k2 + 1]

RECURSIVE SynthesizeAll(_, _, _, _, _)
SynthesizeAll(services, dist, tm, tape, k) ==
  IF services = <<>> THEN <<>>
  ELSE LET one == SynthesizeOne(Head(services), dist, tm, tape, k)
       IN <<one.result>> \o SynthesizeAll(Tail(services), dist, tm, tape, one.k)

\* results.sort((a, b) => a.price.value - b.price.value): stable, ascending
RECURSIVE InsertByPrice(_, _)
InsertByPrice(x, s) ==
  IF s = <<>> THEN <<x>>
  ELSE IF x.value < Head(s).value THEN <<x>> \o s
       ELSE <<Head(s)>> \o InsertByPrice(x, Tail(s))

SortByPriceOmitted(s) == s
RECURSIVE SortByPrice(_)
SortByPrice(s) ==
  IF s = <<>> THEN <<>>
  ELSE InsertByPrice(s[Len(s)], SortByPrice(SubSeq(s, 1, Len(s) - 1)))

\* the body of the setTimeout callback (api.ts:268-321)
\* no earlier call recorded
NoPrev == [called |-> FALSE, req |-> NoRequest,
           tape |-> [i \in 1..RandLen |-> 0], results |-> <<>>]

\* results kept in an array that outlives the call
MockResultsAccumulated(req, dist, tm, tape, k) ==
  farePrev.results \o SortByPrice(SynthesizeAll(chosenServices(req), dist, tm, tape, k))

\* const results = chosenServices.map(...); results.sort(...): a fresh array
\* per call, built from the request and the Math.random() draws only
MockResults(req, dist, tm, tape, k) ==
  SortByPrice(SynthesizeAll(chosenServices(req), dist, tm, tape, k))

\* ResultCard (utils/index.ts:195-), what it shows of a result
ResultCard(result) ==
  [provider |-> result.provider, serviceType |-> result.serviceType,
   price |-> result.value]

\* results.map((result, index) => <ResultCard .../>)
RECURSIVE ResultCards(_)
ResultCards(results) ==
  IF results = <<>> THEN <<>>
  ELSE <<ResultCard(Head(results))>> \o ResultCards(Tail(results))

\* ResultsList (utils/index.ts:156-190): the cards it renders; none while
\* loading and none for an empty list
ResultsList(results, isLoading) ==
  IF isLoading THEN <<>>
  ELSE IF Len(results) = 0 THEN <<>>
  ELSE ResultCards(results)

InitFare ==
  /\ farePc = "idle"
  /\ fareReq = NoRequest
  /\ fareTape = [i \in 1..RandLen |-> 0]
  /\ fareK = 0
  /\ fareDist = 0
  /\ fareTM = 0
  /\ fareResults = <<>>
  /\ farePrev = NoPrev

\* generateMockCompareResponse(request) up to the armed timer
GenerateMock(req, tape) ==
  /\ fareReq' = req
  /\ fareTape' = tape
  /\ fareDist' = computeDistanceKm(req, tape, 0)
  /\ fareTM' = trafficMultiplier(req.hour, req.day)
  \* + 1: the timer delay 400 + Math.random() * 400
  /\ fareK' = DistanceDraws(req) + 1
  /\ farePc' = "pending"
  /\ fareResults' = <<>>

FareRequest ==
  /\ farePc = "idle"
  /\ \E req \in Requests, tape \in RandTapes : GenerateMock(req, tape)
  /\ UNCHANGED farePrev

\* the timer fires and the promise resolves
FareResolve ==
  /\ farePc = "pending"
  /\ fareResults' = MockResults(fareReq, fareDist, fareTM, fareTape, fareK)
  /\ farePc' = "resolved"
  /\ UNCHANGED <<fareReq, fareTape, fareK, fareDist, fareTM, farePrev>>

\* the caller drops the response; the synthesizer keeps no state
FareDiscard ==
  /\ farePc = "resolved"
  /\ farePc' = "idle"
  /\ fareReq' = NoRequest
  /\ fareTape' = [i \in 1..RandLen |-> 0]
  /\ fareK' = 0
  /\ fareDist' = 0
  /\ fareTM' = 0
  /\ fareResults' = <<>>
  /\ UNCHANGED farePrev

\* Math.random() replaced by a function returning the same value every time
ConstantTape(c) == [i \in 1..RandLen |-> c]

\* a call made with Math.random() held constant
FareRequestFixed ==
  /\ farePc = "idle"
  /\ \E req \in Requests, c \in DrawVals : GenerateMock(req, ConstantTape(c))
  /\ UNCHANGED farePrev

\* the caller keeps the response and calls again with the same request
\* (same pickup, drop-off, vehicle class and request.when)
FareAgain ==
  /\ farePc = "resolved"
  /\ ~farePrev.called
  /\ farePrev' = [called |-> TRUE, req |-> fareReq, tape |-> fareTape,
                  results |-> fareResults]
  /\ \E c \in DrawVals : GenerateMock(fareReq, ConstantTape(c))

NextFareTwice ==
  \/ FareRequestFixed /\ UNCHANGED <<apiVars, geoVars, becknVars, hookVars, formVars, distVars, gazVars, revVars, fmtVars, themeVars>>
  \/ FareResolve /\ UNCHANGED <<apiVars, geoVars, becknVars, hookVars, formVars, distVars, gazVars, revVars, fmtVars, themeVars>>
  \/ FareAgain /\ UNCHANGED <<apiVars, geoVars, becknVars, hookVars, formVars, distVars, gazVars, revVars, fmtVars, themeVars>>

NextFare ==
  \/ FareRequest /\ UNCHANGED <<apiVars, geoVars, becknVars, hookVars, formVars, distVars, gazVars, revVars, fmtVars, themeVars>>
  \/ FareResolve /\ UNCHANGED <<apiVars, geoVars, becknVars, hookVars, formVars, distVars, gazVars, revVars, fmtVars, themeVars>>
  \/ FareDiscard /\ UNCHANGED <<apiVars, geoVars, becknVars, hookVars, formVars, distVars, gazVars, revVars, fmtVars, themeVars>>

(***************************************************************************)
(* rideService.compareRides over apiRequest                                *)
(***************************************************************************)

\* VITE_MODE; "unset" is undefined (vite-env declares MOCK and LIVE,
\* compareRides also tests CLIENT_MOCK)
Modes == {"MOCK", "LIVE", "CLIENT_MOCK", "unset"}

\* requests tried through compareRides
ApiRequests ==
  {r \in Requests : /\ r.hour \in {8, 12}
                    /\ r.day = 3
                    /\ r.arc \in {0, 1250}
                    /\ r.vehicleType \in {"none", "suv"}}

\* how fetch(url, config) and the body parse can end
FetchOutcomes == {"ok", "okBadJson", "httpError", "httpErrorNoBody", "network"}

NoResponse == [source |-> "none", request |-> NoRequest, results |-> <<>>, error |-> "none"]

\* line 55: (import.meta.env.VITE_MODE ?? 'LIVE')
EffectiveMode(env) == IF env = "unset" THEN "LIVE" ELSE env

preferLocalMock(mode) == mode = "CLIENT_MOCK"

apiRequestNoStatusCheck(outcome) ==
  CASE outcome \in {"ok", "httpError"} -> [ok |-> TRUE, error |-> "none"]
    [] outcome \in {"okBadJson", "httpErrorNoBody"} -> [ok |-> FALSE, error |-> "ApiError:parse"]
    [] OTHER -> [ok |-> FALSE, error |-> "ApiError:network"]
\* apiRequest (api.ts:16-51): the parsed body, or an ApiError thrown
apiRequest(outcome) ==
  CASE outcome = "ok" -> [ok |-> TRUE, error |-> "none"]
    [] outcome = "okBadJson" -> [ok |-> FALSE, error |-> "ApiError:parse"]
    [] outcome = "httpError" -> [ok |-> FALSE, error |-> "ApiError:message"]
    [] outcome = "httpErrorNoBody" -> [ok |-> FALSE, error |-> "ApiError:HTTP status"]
    [] OTHER -> [ok |-> FALSE, error |-> "ApiError:network"]

FallsBackOnlyOnNetwork(mode, error) == mode = "MOCK" /\ error = "ApiError:network"
\* line 68: the catch block falls back to the mock only in MOCK mode
FallsBack(mode, error) == mode = "MOCK"

InitApi ==
  /\ apiPc = "idle"
  /\ apiMode = "LIVE"
  /\ apiReq = NoRequest
  /\ apiFetches = 0
  /\ apiFetched = "none"
  /\ apiResponse = NoResponse

\* compareRides(request) up to its first await
ApiCompare ==
  /\ apiPc = "idle"
  /\ farePc = "idle"
  /\ \E env \in Modes, req \in ApiRequests, tape \in RandTapes :
       /\ apiMode' = EffectiveMode(env)
       /\ apiReq' = req
       /\ apiFetched' = "none"
       /\ apiResponse' = NoResponse
       /\ IF preferLocalMock(EffectiveMode(env))
          THEN /\ GenerateMock(req, tape)
               /\ UNCHANGED farePrev
               /\ apiFetches' = 0
               /\ apiPc' = "mock"
          ELSE /\ apiFetches' = 1
               /\ apiPc' = "fetching"
               /\ UNCHANGED fareVars

\* the POST to /api/compare settles
ApiFetchSettle ==
  /\ apiPc = "fetching"
  /\ \E outcome \in FetchOutcomes, tape \in RandTapes :
       LET r == apiRequest(outcome) IN
       /\ apiFetched' = outcome
       /\ IF r.ok
          THEN /\ apiResponse' = [source |-> "backend", request |-> apiReq,
                                  results |-> <<>>, error |-> "none"]
               /\ apiPc' = "resolved"
               /\ UNCHANGED fareVars
          ELSE IF FallsBack(apiMode, r.error)
          THEN /\ GenerateMock(apiReq, tape)
               /\ UNCHANGED farePrev
               /\ apiPc' = "mock"
               /\ UNCHANGED apiResponse
          ELSE /\ apiResponse' = [source |-> "none", request |-> apiReq,
                                  results |-> <<>>, error |-> r.error]
               /\ apiPc' = "rejected"
               /\ UNCHANGED fareVars
  /\ UNCHANGED <<apiMode, apiReq, apiFetches>>

\* the mock generator's timer fires; compareRides resolves with its response
ApiMockResolve ==
  /\ apiPc = "mock"
  /\ FareResolve
  /\ apiResponse' = [source |-> "mock", request |-> fareReq,
                     results |-> fareResults', error |-> "none"]
  /\ apiPc' = "resolved"
  /\ UNCHANGED <<apiMode, apiReq, apiFetches, apiFetched>>

\* the caller has consumed the settled promise
ApiDone ==
  /\ apiPc \in {"resolved", "rejected"}
  /\ apiPc' = "idle"
  /\ apiMode' = "LIVE"
  /\ apiReq' = NoRequest
  /\ apiFetches' = 0
  /\ apiFetched' = "none"
  /\ apiResponse' = NoResponse
  /\ IF farePc = "resolved" THEN FareDiscard ELSE UNCHANGED fareVars

NextApi ==
  \/ ApiCompare /\ UNCHANGED <<geoVars, becknVars, hookVars, formVars, distVars, gazVars, revVars, fmtVars, themeVars>>
  \/ ApiFetchSettle /\ UNCHANGED <<geoVars, becknVars, hookVars, formVars, distVars, gazVars, revVars, fmtVars, themeVars>>
  \/ ApiMockResolve /\ UNCHANGED <<geoVars, becknVars, hookVars, formVars, distVars, gazVars, revVars, fmtVars, themeVars>>
  \/ ApiDone /\ UNCHANGED <<geoVars, becknVars, hookVars, formVars, distVars, gazVars, revVars, fmtVars, themeVars>>

(***************************************************************************)
(* Strings are sequences of character codes (String.prototype.charCodeAt)  *)
(***************************************************************************)

\* String.prototype.toLowerCase on ASCII
ToLower(s) == [i \in 1..Len(s) |-> IF s[i] \in 65..90 THEN s[i] + 32 ELSE s[i]]

\* the \s class on ASCII: space, tab, line feed, carriage return
IsSpace(c) == c \in {32, 9, 10, 13}

RECURSIVE TrimStart(_)
TrimStart(s) == IF s # <<>> /\ IsSpace(Head(s)) THEN TrimStart(Tail(s)) ELSE s

RECURSIVE TrimEnd(_)
TrimEnd(s) ==
  IF s # <<>> /\ IsSpace(s[Len(s)]) THEN TrimEnd(SubSeq(s, 1, Len(s) - 1)) ELSE s

\* String.prototype.trim
Trim(s) == TrimEnd(TrimStart(s))

\* String.prototype.includes
Includes(h, n) == \E i \in 1..(Len(h) - Len(n) + 1) : SubSeq(h, i, i + Len(n) - 1) = n

\* String.prototype.startsWith
StartsWith(h, n) == Len(n) <= Len(h) /\ SubSeq(h, 1, Len(n)) = n

\* s.split(/\s+/); cur is the word being read
RECURSIVE SplitWs(_, _)
SplitWs(s, cur) ==
  IF s = <<>> THEN <<cur>>
  ELSE IF IsSpace(Head(s)) THEN <<cur>> \o SplitWs(TrimStart(s), <<>>)
       ELSE SplitWs(Tail(s), Append(cur, Head(s)))

\* decimal digits of a natural number
RECURSIVE Digits(_)
Digits(n) == IF n < 10 THEN <<48 + n>> ELSE Digits(n \div 10) \o <<48 + (n % 10)>>

\* Number.prototype.toFixed(4) of a coordinate held in 1/100000 degree
\* x.toFixed(4) for x in 1/100000
ToFixed4(x) ==
  IF x = NaN THEN <<78, 97, 78>> ELSE
  LET mag  == IF x < 0 THEN -x ELSE x
      n    == RoundDiv(mag, 10)
      frac == n % 10000
      pad  == [i \in 1..(4 - Len(Digits(frac))) |-> 48]
  IN (IF x < 0 THEN <<45>> ELSE <<>>) \o Digits(n \div 10000) \o <<46>> \o pad \o Digits(frac)

\* the same without rounding to 4 places: all 5 stored decimals
ToFixed5(x) ==
  LET mag  == IF x < 0 THEN -x ELSE x
      frac == mag % 100000
      pad  == [i \in 1..(5 - Len(Digits(frac))) |-> 48]
  IN (IF x < 0 THEN <<45>> ELSE <<>>) \o Digits(mag \div 100000) \o <<46>> \o pad \o Digits(frac)

\* x.toFixed(6) for x in 1/100000: the 5 stored decimals and a 0
ToFixed6(x) ==
  IF x = NaN THEN <<78, 97, 78>> ELSE ToFixed5(x) \o <<48>>

(***************************************************************************)
(* Location search: searchLocations, mergeAndRankResults                   *)
(***************************************************************************)

\* "" (no value) for string-valued fields held as character codes
NoStr == <<>>

\* part_008:411-427: the static gazetteer; lat and lng in 1/100000 degree,
\* address as character codes
mockLocations == <<
  \* Connaught Place, New Delhi, Delhi, India
  [lat |-> 2861390, lng |-> 7720900, placeId |-> "undefined",
   address |-> <<67, 111, 110, 110, 97, 117, 103, 104, 116, 32, 80, 108, 97, 99, 101, 44, 32, 78, 101, 119, 32, 68, 101, 108, 104, 105, 44, 32, 68, 101, 108, 104, 105, 44, 32, 73, 110, 100, 105, 97>>],
  \* Noida City Centre, Noida, Uttar Pradesh, India
  [lat |-> 2853550, lng |-> 7739100, placeId |-> "undefined",
   address |-> <<78, 111, 105, 100, 97, 32, 67, 105, 116, 121, 32, 67, 101, 110, 116, 114, 101, 44, 32, 78, 111, 105, 100, 97, 44, 32, 85, 116, 116, 97, 114, 32, 80, 114, 97, 100, 101, 115, 104, 44, 32, 73, 110, 100, 105, 97>>],
  \* Cyber Hub, Gurugram, Haryana, India
  [lat |-> 2845950, lng |-> 7702660, placeId |-> "undefined",
   address |-> <<67, 121, 98, 101, 114, 32, 72, 117, 98, 44, 32, 71, 117, 114, 117, 103, 114, 97, 109, 44, 32, 72, 97, 114, 121, 97, 110, 97, 44, 32, 73, 110, 100, 105, 97>>],
  \* Akshardham Temple, Delhi, India
  [lat |-> 2866920, lng |-> 7745380, placeId |-> "undefined",
   address |-> <<65, 107, 115, 104, 97, 114, 100, 104, 97, 109, 32, 84, 101, 109, 112, 108, 101, 44, 32, 68, 101, 108, 104, 105, 44, 32, 73, 110, 100, 105, 97>>],
  \* Hauz Khas Village, Delhi, India
  [lat |-> 2852740, lng |-> 7720650, placeId |-> "undefined",
   address |-> <<72, 97, 117, 122, 32, 75, 104, 97, 115, 32, 86, 105, 108, 108, 97, 103, 101, 44, 32, 68, 101, 108, 104, 105, 44, 32, 73, 110, 100, 105, 97>>],
  \* Karol Bagh, Delhi, India
  [lat |-> 2865080, lng |-> 7723110, placeId |-> "undefined",
   address |-> <<75, 97, 114, 111, 108, 32, 66, 97, 103, 104, 44, 32, 68, 101, 108, 104, 105, 44, 32, 73, 110, 100, 105, 97>>],
  \* India Gate, New Delhi, Delhi, India
  [lat |-> 2863040, lng |-> 7721770, placeId |-> "undefined",
   address |-> <<73, 110, 100, 105, 97, 32, 71, 97, 116, 101, 44, 32, 78, 101, 119, 32, 68, 101, 108, 104, 105, 44, 32, 68, 101, 108, 104, 105, 44, 32, 73, 110, 100, 105, 97>>],
  \* Red Fort, Delhi, India
  [lat |-> 2865620, lng |-> 7724100, placeId |-> "undefined",
   address |-> <<82, 101, 100, 32, 70, 111, 114, 116, 44, 32, 68, 101, 108, 104, 105, 44, 32, 73, 110, 100, 105, 97>>],
  \* MG Road, Bangalore, Karnataka, India
  [lat |-> 1297160, lng |-> 7759460, placeId |-> "undefined",
   address |-> <<77, 71, 32, 82, 111, 97, 100, 44, 32, 66, 97, 110, 103, 97, 108, 111, 114, 101, 44, 32, 75, 97, 114, 110, 97, 116, 97, 107, 97, 44, 32, 73, 110, 100, 105, 97>>],
  \* Mumbai, Maharashtra, India
  [lat |-> 1907600, lng |-> 7287770, placeId |-> "undefined",
   address |-> <<77, 117, 109, 98, 97, 105, 44, 32, 77, 97, 104, 97, 114, 97, 115, 104, 116, 114, 97, 44, 32, 73, 110, 100, 105, 97>>],
  \* Chennai, Tamil Nadu, India
  [lat |-> 1308270, lng |-> 8027070, placeId |-> "undefined",
   address |-> <<67, 104, 101, 110, 110, 97, 105, 44, 32, 84, 97, 109, 105, 108, 32, 78, 97, 100, 117, 44, 32, 73, 110, 100, 105, 97>>],
  \* Kolkata, West Bengal, India
  [lat |-> 2257260, lng |-> 8836390, placeId |-> "undefined",
   address |-> <<75, 111, 108, 107, 97, 116, 97, 44, 32, 87, 101, 115, 116, 32, 66, 101, 110, 103, 97, 108, 44, 32, 73, 110, 100, 105, 97>>],
  \* Hyderabad, Telangana, India
  [lat |-> 1738500, lng |-> 7848670, placeId |-> "undefined",
   address |-> <<72, 121, 100, 101, 114, 97, 98, 97, 100, 44, 32, 84, 101, 108, 97, 110, 103, 97, 110, 97, 44, 32, 73, 110, 100, 105, 97>>],
  \* Ahmedabad, Gujarat, India
  [lat |-> 2302250, lng |-> 7257140, placeId |-> "undefined",
   address |-> <<65, 104, 109, 101, 100, 97, 98, 97, 100, 44, 32, 71, 117, 106, 97, 114, 97, 116, 44, 32, 73, 110, 100, 105, 97>>],
  \* Pune, Maharashtra, India
  [lat |-> 1852040, lng |-> 7385670, placeId |-> "undefined",
   address |-> <<80, 117, 110, 101, 44, 32, 77, 97, 104, 97, 114, 97, 115, 104, 116, 114, 97, 44, 32, 73, 110, 100, 105, 97>>] >>

\* Array.prototype.slice(0, n)
Take(s, n) == SubSeq(s, 1, Min(Len(s), n))

RECURSIVE FilterByQuery(_, _)
FilterByQuery(locs, lowerQuery) ==
  IF locs = <<>> THEN <<>>
  ELSE IF Includes(ToLower(Head(locs).address), lowerQuery)
       THEN <<Head(locs)>> \o FilterByQuery(Tail(locs), lowerQuery)
       ELSE FilterByQuery(Tail(locs), lowerQuery)

\* the query compared as typed, without toLowerCase
generateMockSuggestionsCaseSensitive(query) == Take(FilterByQuery(mockLocations, query), 5)

\* part_008:410-433
generateMockSuggestions(query) == Take(FilterByQuery(mockLocations, ToLower(query)), 5)

\* ---- Photon features (data.features of the Photon response)
NoProps == [name |-> NoStr, street |-> NoStr, suburb |-> NoStr, city |-> NoStr,
            state |-> NoStr, postcode |-> NoStr, country |-> NoStr,
            countrycode |-> NoStr, osm_id |-> "", osm_type |-> "", type |-> "",
            extent |-> FALSE, importance |-> 0, distance |-> 0]

\* the city of Delhi, 3.5 km from the proximity point
F1 == [hasCoords |-> TRUE, lat |-> 2861390, lng |-> 7720900,
       properties |-> [NoProps EXCEPT !.name = <<68, 101, 108, 104, 105>>, !.city = <<68, 101, 108, 104, 105>>,
                         !.country = <<73, 110, 100, 105, 97>>, !.countrycode = <<105, 110>>,
                         !.osm_id = "11", !.osm_type = "R", !.type = "city",
                         !.extent = TRUE, !.distance = 350]]
\* the same place as a node: other letter case, whitespace, 5th decimals
F2 == [hasCoords |-> TRUE, lat |-> 2861394, lng |-> 7720896,
       properties |-> [NoProps EXCEPT !.name = <<100, 101, 108, 104, 105, 32>>,
                         !.country = <<73, 110, 100, 105, 97>>, !.countrycode = <<73, 78>>,
                         !.osm_id = "12", !.osm_type = "N", !.type = "suburb"]]
\* a feature without coordinates
F4 == [hasCoords |-> FALSE, lat |-> 0, lng |-> 0,
       properties |-> [NoProps EXCEPT !.name = <<68, 101, 108, 104, 105, 32, 71, 97, 116, 101>>, !.countrycode = <<73, 78>>]]
\* Delhi in another country
F5 == [hasCoords |-> TRUE, lat |-> 4227810, lng |-> -7491650,
       properties |-> [NoProps EXCEPT !.name = <<68, 101, 108, 104, 105>>, !.state = <<78, 101, 119, 32, 89, 111, 114, 107>>,
                         !.countrycode = <<85, 83>>, !.osm_id = "15", !.type = "town"]]

\* ---- Nominatim items (the jsonv2 array)
NoItem == [lat |-> 0, lon |-> 0, hasDisplayName |-> TRUE, display_name |-> NoStr,
           place_id |-> "", type |-> "", class |-> "", importance |-> 0,
           name |-> NoStr, namedetailsName |-> NoStr]

\* the city of Delhi again
N1 == [NoItem EXCEPT !.lat = 2861390, !.lon = 7720900,
         !.display_name = <<68, 101, 108, 104, 105, 44, 32, 73, 110, 100, 105, 97>>, !.place_id = "101",
         !.type = "administrative", !.class = "boundary", !.importance = 80,
         !.namedetailsName = <<68, 101, 108, 104, 105>>]
\* an item without display_name
N3 == [NoItem EXCEPT !.lat = 2861390, !.lon = 7720900, !.hasDisplayName = FALSE,
         !.place_id = "103"]
N4 == [NoItem EXCEPT !.lat = 1852040, !.lon = 7385670,
         !.display_name = <<90, 122, 122, 32, 67, 97, 102, 101, 44, 32, 68, 101, 108, 104, 105, 32, 82, 111, 97, 100, 44, 32, 80, 117, 110, 101>>, !.place_id = "104",
         !.type = "cafe", !.class = "amenity", !.name = <<90, 122, 122, 32, 67, 97, 102, 101>>]
\* matches no query tried and has importance 0: scores exactly 10
N5 == [NoItem EXCEPT !.lat = 1852040, !.lon = 7385670,
         !.display_name = <<80, 117, 110, 101, 44, 32, 73, 110, 100, 105, 97>>, !.place_id = "105",
         !.type = "administrative", !.class = "boundary"]

\* what a backend request can end with: a failure (network error or non-OK
\* status), or a body
PhotonResponses ==
  { [ok |-> FALSE, features |-> <<>>],
    [ok |-> TRUE, features |-> <<F4>>],
    [ok |-> TRUE, features |-> <<F2, F1, F5>>] }

NominatimResponses ==
  { [ok |-> FALSE, items |-> <<>>],
    [ok |-> TRUE, items |-> <<N3>>],
    [ok |-> TRUE, items |-> <<N5, N1, N4>>] }

\* queries tried
\* " delhi "
Q_Delhi == <<32, 100, 101, 108, 104, 105, 32>>
\* "zzz"
Q_Zzz == <<122, 122, 122>>
\* " ab "
Q_Short == <<32, 97, 98, 32>>
Queries == {Q_Delhi, Q_Zzz, Q_Short}

\* options tried; limit 0 and country NoStr stand for undefined.
\* The first is what useLocationSearch passes.
OptionsTried ==
  { [proximity |-> TRUE, country |-> <<105, 110>>, limit |-> 5],
    [proximity |-> FALSE, country |-> NoStr, limit |-> 1] }

\* ---- fetchPhotonSuggestions (part_008:96-142)
RECURSIVE NonEmptyTrimmed(_)
NonEmptyTrimmed(parts) ==
  IF parts = <<>> THEN <<>>
  ELSE IF Head(parts) = NoStr THEN NonEmptyTrimmed(Tail(parts))
       ELSE <<Trim(Head(parts))>> \o NonEmptyTrimmed(Tail(parts))

\* Array.from(new Set(parts))
RECURSIVE UniqueParts(_, _)
UniqueParts(parts, seen) ==
  IF parts = <<>> THEN <<>>
  ELSE IF Head(parts) \in seen THEN UniqueParts(Tail(parts), seen)
       ELSE <<Head(parts)>> \o UniqueParts(Tail(parts), seen \cup {Head(parts)})

\* parts.join(', ')
RECURSIVE JoinComma(_)
JoinComma(parts) ==
  IF parts = <<>> THEN <<>>
  ELSE IF Len(parts) = 1 THEN Head(parts)
       ELSE Head(parts) \o <<44, 32>> \o JoinComma(Tail(parts))

PhotonAddress(p) ==
  JoinComma(UniqueParts(NonEmptyTrimmed(
    <<p.name, p.street, p.suburb, p.city, p.state, p.postcode, p.country>>), {}))

\* a feature the map callback turns into null
PhotonDropped(f, options) ==
  \/ ~f.hasCoords
  \/ /\ options.country # NoStr
     /\ f.properties.countrycode # NoStr
     /\ ToLower(f.properties.countrycode) # ToLower(options.country)
  \/ PhotonAddress(f.properties) = NoStr

PhotonLocation(f) ==
  LET p == f.properties IN
  [lat |-> f.lat, lng |-> f.lng, hasAddress |-> TRUE, address |-> PhotonAddress(p),
   placeId |-> IF p.osm_id = "" THEN "undefined"
               ELSE (IF p.osm_type = "" THEN "osm" ELSE p.osm_type) \o "-" \o p.osm_id,
   raw |-> [source |-> "photon", type |-> "", class |-> "",
            importance |-> IF p.extent THEN 60 ELSE 30,
            name |-> NoStr, namedetailsName |-> NoStr,
            hasProperties |-> TRUE, properties |-> p]]

RECURSIVE PhotonLocations(_, _)
PhotonLocations(features, options) ==
  IF features = <<>> THEN <<>>
  ELSE IF PhotonDropped(Head(features), options)
       THEN PhotonLocations(Tail(features), options)
       ELSE <<PhotonLocation(Head(features))>> \o PhotonLocations(Tail(features), options)

\* ---- fetchNominatimSuggestions (part_008:183-192)
NominatimLocation(item) ==
  [lat |-> item.lat, lng |-> item.lon, hasAddress |-> item.hasDisplayName,
   address |-> item.display_name,
   placeId |-> IF item.place_id = "" THEN "undefined" ELSE item.place_id,
   raw |-> [source |-> "nominatim", type |-> item.type, class |-> item.class,
            importance |-> item.importance,
            name |-> item.name, namedetailsName |-> item.namedetailsName,
            hasProperties |-> FALSE, properties |-> NoProps]]

NominatimLocations(items) == [i \in 1..Len(items) |-> NominatimLocation(items[i])]

\* ---- scoreAndFilterResults (part_008:223-287); the score in 1/100 point
RECURSIVE WordScore(_, _)
WordScore(words, address) ==
  IF words = <<>> THEN 0
  ELSE (IF Includes(address, Head(words)) THEN 2000 ELSE 0)
       + WordScore(Tail(words), address)

\* the callback of locations.map, on the lower-cased query and address
ScoreOf(raw, props, lowerQuery, address) ==
  LET type       == IF raw.type # "" THEN raw.type ELSE props.type
      placeType  == IF raw.class # "" THEN raw.class ELSE props.osm_type
      importance == IF raw.importance # 0 THEN raw.importance ELSE props.importance
      rawName    == IF raw.name # NoStr THEN raw.name
                    ELSE IF raw.namedetailsName # NoStr THEN raw.namedetailsName
                    ELSE props.name
  IN (CASE raw.source = "photon" -> 2000
        [] raw.source = "nominatim" -> 1000
        [] OTHER -> 0)
     + (IF StartsWith(address, lowerQuery) THEN 10000 ELSE 0)
     + WordScore(SplitWs(lowerQuery, <<>>), address)
     + (IF type \in {"city", "town", "village", "locality"} THEN 3000 ELSE 0)
     + (IF placeType \in {"amenity", "tourism", "shop"} THEN 1500 ELSE 0)
     + importance * 50
     - (IF Len(address) > 150 THEN 1000 ELSE 0)
     + (IF rawName # NoStr /\ Includes(ToLower(rawName), lowerQuery) THEN 2500 ELSE 0)
     + (IF props.distance # 0 THEN Max(0, 1000 - props.distance) ELSE 0)

Score(location, query) ==
  ScoreOf(location.raw, location.raw.properties, ToLower(query), ToLower(location.address))

\* location.address.toLowerCase() on an undefined address throws a TypeError
ScoringThrows(locations) == \E i \in 1..Len(locations) : ~locations[i].hasAddress

\* .sort((a, b) => b._score - a._score): stable, descending
RECURSIVE InsertByScore(_, _)
InsertByScore(x, s) ==
  IF s = <<>> THEN <<x>>
  ELSE IF x.score > Head(s).score THEN <<x>> \o s
       ELSE <<Head(s)>> \o InsertByScore(x, Tail(s))

RECURSIVE SortByScore(_)
SortByScore(s) ==
  IF s = <<>> THEN <<>>
  ELSE InsertByScore(s[Len(s)], SortByScore(SubSeq(s, 1, Len(s) - 1)))

KeepAtLeast10(location, score) ==
  IF score >= 1000 THEN <<[loc |-> location, score |-> score]>> ELSE <<>>
\* .filter(location => location._score > 10)
KeepAbove10(location, score) ==
  IF score > 1000 THEN <<[loc |-> location, score |-> score]>> ELSE <<>>

RECURSIVE ScoredAbove10(_, _)
ScoredAbove10(locations, query) ==
  IF locations = <<>> THEN <<>>
  ELSE KeepAbove10(Head(locations), Score(Head(locations), query))
       \o ScoredAbove10(Tail(locations), query)

scoreAndFilterResults(locations, query) == SortByScore(ScoredAbove10(locations, query))

normalizeLocationKeyUnrounded(address, lat, lng) ==
  Trim(ToLower(address)) \o <<45>> \o ToFixed5(lat) \o <<45>> \o ToFixed5(lng)
\* part_008:289-293
normalizeLocationKey(address, lat, lng) ==
  Trim(ToLower(address)) \o <<45>> \o ToFixed4(lat) \o <<45>> \o ToFixed4(lng)

\* the loop of mergeAndRankResults (part_008:200-210)
KeyOf(location) == normalizeLocationKey(location.address, location.lat, location.lng)

RECURSIVE UniqueByKey(_, _, _, _)
\* one iteration of the loop, key being the key of the head of scored
UniqueStep(scored, seen, unique, limit, key) ==
  IF key \in seen THEN UniqueByKey(Tail(scored), seen, unique, limit)
  ELSE IF Len(unique) + 1 >= limit THEN Append(unique, Head(scored).loc)
  ELSE UniqueByKey(Tail(scored), seen \cup {key}, Append(unique, Head(scored).loc), limit)

UniqueByKey(scored, seen, unique, limit) ==
  IF scored = <<>> THEN unique
  ELSE UniqueStep(scored, seen, unique, limit, KeyOf(Head(scored).loc))

\* the Location a result is returned as (part_008:212-217)
Project(location) ==
  [lat |-> location.lat, lng |-> location.lng, address |-> location.address,
   placeId |-> location.placeId]

\* part_008:195-218, for locations whose addresses are all defined
ProjectAll(unique) == [i \in 1..Len(unique) |-> Project(unique[i])]

mergeAndRankResults(locations, query, limit) ==
  ProjectAll(UniqueByKey(scoreAndFilterResults(locations, query), {}, <<>>, limit))

\* ---- searchLocations (part_008:17-71)

\* part_008:9, milliseconds
CACHE_DURATION == 300000

\* number of searchLocations calls in a behaviour
MaxSearches == 2
\* the clock advances in steps of half the cache duration, until an entry
\* written at time 0 has expired
TickMs == CACHE_DURATION \div 2

\* an entry of age CACHE_DURATION counting as fresh
CacheFreshInclusive(entry, now) == now - entry.timestamp <= CACHE_DURATION

\* part_008:42: Date.now() - cached.timestamp < CACHE_DURATION
CacheFresh(entry, now) == now - entry.timestamp < CACHE_DURATION

\* options.limit || 5
Limit(options) == IF options.limit = 0 THEN 5 ELSE options.limit

\* the object JSON.stringify turns into the cache key (part_008:34-39)
CacheKey(trimmedQuery, options) ==
  [query |-> trimmedQuery,
   country |-> IF options.country = NoStr THEN <<105, 110>> ELSE options.country,
   proximity |-> options.proximity,
   limit |-> Limit(options)]

photonSettledNoCatch(response, options) ==
  IF response.ok
  THEN [rejected |-> FALSE, value |-> PhotonLocations(response.features, options)]
  ELSE [rejected |-> TRUE, value |-> <<>>]
\* fetchPhotonSuggestions(trimmedQuery, options).catch(() => [])
photonSettled(response, options) ==
  IF response.ok
  THEN [rejected |-> FALSE, value |-> PhotonLocations(response.features, options)]
  ELSE [rejected |-> FALSE, value |-> <<>>]

\* fetchNominatimSuggestions(trimmedQuery, options).catch(() => [])
nominatimSettled(response) ==
  IF response.ok
  THEN [rejected |-> FALSE, value |-> NominatimLocations(response.items)]
  ELSE [rejected |-> FALSE, value |-> <<>>]

\* lines 57-66 returning the gazetteer result without the searchCache.set
FinalizedFallbackNotCached(merged, trimmedQuery) ==
  [caught |-> Len(merged) = 0, merged |-> merged,
   results |-> IF Len(merged) > 0 THEN merged ELSE generateMockSuggestions(trimmedQuery)]

\* the try block once both requests have settled, and the catch block
\* (part_008:46-70): what is returned and whether the cache is written
\* lines 57-66: the merged results, or the gazetteer when there are none
Finalized(merged, trimmedQuery) ==
  [caught |-> FALSE, merged |-> merged,
   results |-> IF Len(merged) > 0 THEN merged ELSE generateMockSuggestions(trimmedQuery)]

\* lines 67-70: the catch block
Caught(trimmedQuery) ==
  [caught |-> TRUE, merged |-> <<>>, results |-> generateMockSuggestions(trimmedQuery)]

\* p and n are what the two promises given to Promise.all settled with
SearchSettled(trimmedQuery, options, p, n) ==
  IF p.rejected \/ n.rejected \/ ScoringThrows(p.value \o n.value)
  THEN Caught(trimmedQuery)
  ELSE Finalized(mergeAndRankResults(p.value \o n.value, trimmedQuery, Limit(options)),
                 trimmedQuery)

SearchOutcome(trimmedQuery, options, photon, nominatim) ==
  SearchSettled(trimmedQuery, options,
                photonSettled(photon, options), nominatimSettled(nominatim))

NoPhoton == [ok |-> TRUE, features |-> <<>>]
NoNominatim == [ok |-> TRUE, items |-> <<>>]
NoOptions == [proximity |-> FALSE, country |-> NoStr, limit |-> 0]

\* the record of a searchLocations call that has returned
GeoReturn(query, options, path, photon, nominatim, out, requests) ==
  [query |-> query, options |-> options, path |-> path,
   photon |-> photon, nominatim |-> nominatim,
   caught |-> out.caught, merged |-> out.merged, results |-> out.results,
   settled |-> "resolved", requests |-> requests]

NoOutcome == [caught |-> FALSE, merged |-> <<>>, results |-> <<>>]

InitGeo ==
  /\ searchCache = {}
  /\ geoNow = 0
  /\ geoPending = {}
  /\ geoCalls = 0
  /\ geoLast = [GeoReturn(NoStr, NoOptions, "none", NoPhoton, NoNominatim, NoOutcome, 0)
                  EXCEPT !.settled = "none"]

\* searchLocations(query, options) up to its first await
GeoSearch ==
  /\ geoCalls < MaxSearches
  /\ \E query \in Queries, options \in OptionsTried :
       LET trimmedQuery == Trim(query)
           id  == geoCalls + 1
           key == CacheKey(trimmedQuery, options)
           cached == {e \in searchCache : e.key = key}
           fresh == {e \in cached : CacheFresh(e, geoNow)}
       IN /\ geoCalls' = id
          /\ IF Len(trimmedQuery) < 3
             THEN /\ geoLast' = GeoReturn(query, options, "short", NoPhoton,
                                          NoNominatim, NoOutcome, 0)
                  /\ UNCHANGED geoPending
             ELSE IF fresh # {}
             THEN /\ geoLast' = GeoReturn(query, options, "cache", NoPhoton, NoNominatim,
                                   [NoOutcome EXCEPT !.results = (CHOOSE e \in fresh : TRUE).results],
                                   0)
                  /\ UNCHANGED geoPending
             ELSE /\ geoPending' = geoPending \cup
                       {[id |-> id, query |-> query, options |-> options]}
                  /\ UNCHANGED geoLast
  /\ UNCHANGED <<searchCache, geoNow>>

\* both backend requests of a pending call have settled; the call returns
GeoSettleWith(call, photon, nominatim, key, out) ==
  /\ geoPending' = geoPending \ {call}
  /\ searchCache' =
       IF out.caught THEN searchCache
       ELSE {e \in searchCache : e.key # key}
              \cup {[key |-> key, results |-> out.results, timestamp |-> geoNow]}
  /\ geoLast' = GeoReturn(call.query, call.options, "fetched",
                          photon, nominatim, out, 2)
  /\ UNCHANGED <<geoNow, geoCalls>>

GeoSettle ==
  \E call \in geoPending, photon \in PhotonResponses, nominatim \in NominatimResponses :
    GeoSettleWith(call, photon, nominatim,
                  CacheKey(Trim(call.query), call.options),
                  SearchOutcome(Trim(call.query), call.options, photon, nominatim))

\* time passes
GeoTick ==
  /\ geoNow < CACHE_DURATION
  /\ geoNow' = geoNow + TickMs
  /\ UNCHANGED <<searchCache, geoPending, geoCalls, geoLast>>

NextGeo ==
  \/ GeoSearch /\ UNCHANGED <<fareVars, apiVars, becknVars, hookVars, formVars, distVars, gazVars, revVars, fmtVars, themeVars>>
  \/ GeoSettle /\ UNCHANGED <<fareVars, apiVars, becknVars, hookVars, formVars, distVars, gazVars, revVars, fmtVars, themeVars>>
  \/ GeoTick /\ UNCHANGED <<fareVars, apiVars, becknVars, hookVars, formVars, distVars, gazVars, revVars, fmtVars, themeVars>>

(***************************************************************************)
(* Namma Yatri over the Beckn protocol.  The backend is Python code that   *)
(* is not part of the sources at hand; this part follows its description   *)
(* in backend/IMPLEMENTATION_SUMMARY.md and backend/BECKN_INTEGRATION.md.  *)
(***************************************************************************)

\* seconds fetch_quotes waits for the callback
BECKN_TIMEOUT == 5
\* number of /api/compare requests in a behaviour
MaxTxn == 2

\* generated transaction identifiers, and the identifiers a callback may
\* carry: those and one that is never generated
Tids == 1..MaxTxn
CallbackTids == 1..(MaxTxn + 1)

\* BECKN_INTEGRATION.md:73-101, message.catalog.providers of an on_search
\* callback; price 0 stands for a price that does not parse
AutoItem == [id |-> "auto-ride", name |-> "Auto Rickshaw", price |-> 150]
CabItem  == [id |-> "cab-ride", name |-> "Cab", price |-> 320]
BadItem  == [id |-> "bad-ride", name |-> "Bike", price |-> 0]
Catalogs ==
  { <<[id |-> "driver-123", items |-> <<AutoItem>>]>>,
    <<[id |-> "driver-123", items |-> <<BadItem, AutoItem>>],
      [id |-> "driver-456", items |-> <<CabItem>>]>> }

Payloads ==
  {[error |-> TRUE, catalog |-> <<>>]}
    \cup {[error |-> FALSE, catalog |-> c] : c \in Catalogs}

\* the offers of the mock providers, which do not depend on the transaction
OtherOffers ==
  << [provider |-> "Uber", serviceType |-> "UberGo", price |-> 210],
     [provider |-> "Ola", serviceType |-> "Mini", price |-> 195],
     [provider |-> "Rapido", serviceType |-> "Bike", price |-> 90] >>

\* "Parses Beckn catalog format, converts to RideResult objects"; an item
\* that does not parse is skipped ("partial results returned")
RECURSIVE ParseItems(_, _)
ParseItems(providerId, items) ==
  IF items = <<>> THEN <<>>
  ELSE (IF Head(items).price = 0 THEN <<>>
        ELSE <<[provider |-> "Namma Yatri", serviceType |-> Head(items).name,
                price |-> Head(items).price, driver |-> providerId]>>)
       \o ParseItems(providerId, Tail(items))

RECURSIVE ParseCatalog(_)
ParseCatalog(providers) ==
  IF providers = <<>> THEN <<>>
  ELSE ParseItems(Head(providers).id, Head(providers).items)
       \o ParseCatalog(Tail(providers))

\* TransactionState as stored when the search was acknowledged
PendingState == [status |-> "PENDING", results |-> <<>>]
TerminalStatuses == {"COMPLETED", "FAILED", "TIMEOUT"}

CallbackStatusIgnoringError(payload) == "COMPLETED"
\* "Beckn error field -> Transaction marked FAILED", otherwise COMPLETED
CallbackStatus(payload) == IF payload.error THEN "FAILED" ELSE "COMPLETED"

CallbackTargetAnyPending(store, tid) ==
  IF \E t \in DOMAIN store : store[t].status = "PENDING"
  THEN CHOOSE t \in DOMAIN store : store[t].status = "PENDING"
  ELSE tid
\* the entry a callback with context.transaction_id = tid updates
CallbackTarget(store, tid) == tid

AcceptsCallbackAlways(state) == TRUE
\* a callback for a transaction that is no longer waited for is ignored
AcceptsCallback(state) == state.status = "PENDING"

AggregateAllOrNothing(others, state) ==
  IF state.status = "COMPLETED" THEN others \o state.results ELSE <<>>
\* the aggregator: every provider's offers, Namma Yatri's being what
\* fetch_quotes returned
Aggregate(others, state) == others \o state.results

NoReply == [tid |-> 0, payload |-> [error |-> FALSE, catalog |-> <<>>], ack |-> "none"]

InitBeckn ==
  /\ becknStore = <<>>
  /\ becknWait = <<>>
  /\ becknAnswer = <<>>
  /\ becknReply = NoReply

\* f without its entry for key
Without(f, key) == [k \in DOMAIN f \ {key} |-> f[k]]

\* /api/compare: BecknClient.search() is acknowledged, the TransactionState
\* is stored as PENDING and fetch_quotes begins to wait
BecknSearch ==
  /\ Len(becknStore) < MaxTxn
  /\ becknStore' = Append(becknStore, PendingState)
  /\ becknWait' = (Len(becknStore) + 1 :> 0) @@ becknWait
  /\ UNCHANGED <<becknAnswer, becknReply>>

\* POST /api/beckn/on_search
BecknCallback ==
  \E tid \in CallbackTids, payload \in Payloads :
    LET known  == tid \in DOMAIN becknStore
        target == CallbackTarget(becknStore, tid)
    IN /\ becknReply' = [tid |-> tid, payload |-> payload,
                         ack |-> IF known THEN "ACK" ELSE "NACK"]
       /\ IF known /\ AcceptsCallback(becknStore[target])
          THEN becknStore' =
                 [becknStore EXCEPT ![target] =
                    [status |-> CallbackStatus(payload),
                     results |-> IF payload.error THEN <<>>
                                 ELSE ParseCatalog(payload.catalog)]]
          ELSE UNCHANGED becknStore
       /\ UNCHANGED <<becknWait, becknAnswer>>

\* a second of fetch_quotes waiting on a transaction that is still PENDING
BecknWaitTick ==
  \E tid \in DOMAIN becknWait :
    /\ becknStore[tid].status = "PENDING"
    /\ becknWait[tid] < BECKN_TIMEOUT
    /\ becknWait' = [becknWait EXCEPT ![tid] = @ + 1]
    /\ UNCHANGED <<becknStore, becknAnswer, becknReply>>

\* what the compare request answers once fetch_quotes has returned
Answer(state) ==
  [quotes |-> state.results, response |-> Aggregate(OtherOffers, state)]

\* fetch_quotes finds its transaction updated and returns
BecknReturn ==
  \E tid \in DOMAIN becknWait :
    /\ becknStore[tid].status # "PENDING"
    /\ becknWait' = Without(becknWait, tid)
    /\ becknAnswer' = (tid :> Answer(becknStore[tid])) @@ becknAnswer
    /\ UNCHANGED <<becknStore, becknReply>>

\* the wait is over and the transaction is still PENDING
BecknTimeout ==
  \E tid \in DOMAIN becknWait :
    /\ becknStore[tid].status = "PENDING"
    /\ becknWait[tid] >= BECKN_TIMEOUT
    /\ becknStore' = [becknStore EXCEPT ![tid].status = "TIMEOUT"]
    /\ becknWait' = Without(becknWait, tid)
    /\ becknAnswer' = (tid :> Answer(becknStore'[tid])) @@ becknAnswer
    /\ UNCHANGED becknReply

NextBeckn ==
  \/ BecknSearch /\ UNCHANGED <<fareVars, apiVars, geoVars, hookVars, formVars, distVars, gazVars, revVars, fmtVars, themeVars>>
  \/ BecknCallback /\ UNCHANGED <<fareVars, apiVars, geoVars, hookVars, formVars, distVars, gazVars, revVars, fmtVars, themeVars>>
  \/ BecknWaitTick /\ UNCHANGED <<fareVars, apiVars, geoVars, hookVars, formVars, distVars, gazVars, revVars, fmtVars, themeVars>>
  \/ BecknReturn /\ UNCHANGED <<fareVars, apiVars, geoVars, hookVars, formVars, distVars, gazVars, revVars, fmtVars, themeVars>>
  \/ BecknTimeout /\ UNCHANGED <<fareVars, apiVars, geoVars, hookVars, formVars, distVars, gazVars, revVars, fmtVars, themeVars>>

(***************************************************************************)
(* useLocationSearch (hooks/useTheme.tsx:111-196) with debounce            *)
(* (utils/index.ts:33-43), for one search field                            *)
(***************************************************************************)

\* useTheme.tsx:111, the default delay in milliseconds
HookDelay == 600
\* number of query changes in a behaviour
MaxChanges == 3
\* the clock advances in steps of half the delay, at most MaxHookTicks times
MaxHookTicks == 4
HookTickMs == HookDelay \div 2

\* "con"
HQ_Con == <<99, 111, 110>>
\* "conn"
HQ_Conn == <<99, 111, 110, 110>>
\* "conn "
HQ_ConnSpace == <<99, 111, 110, 110, 32>>
\* "co"
HQ_Co == <<99, 111>>
\* what the user types into the field
TypedQueries == {<<>>, HQ_Co, HQ_Con, HQ_Conn, HQ_ConnSpace}

\* what a searchLocations call resolves with; it never rejects
SearchResults == {<<>>, <<mockLocations[1]>>, <<mockLocations[1], mockLocations[7]>>}

\* change is the query change whose effect armed the timer, 0 for the first render
NoCall == [n |-> 0, change |-> 0, arg |-> <<>>, query |-> <<>>, at |-> 0, lastChange |-> 0]

\* nothing has settled yet
NoSettled == [query |-> <<>>, applied |-> FALSE, since |-> {}]

\* what has happened since each search in flight started: event is "search"
\* (a later search started), "short" (performSearch ran with a query of
\* fewer than 3 characters), "select" or "clear"
Since(fetches, event) ==
  {[f EXCEPT !.since = f.since \cup {event}] : f \in fetches}

\* debounce(func, delay) as called on a render: the returned function closes
\* over a timeoutId of its own, which is undefined when the effect of that
\* render calls it, so clearTimeout clears nothing and one timer is armed
DebouncedCall(timers, n, arg, now) ==
  timers \cup {[n |-> n, arg |-> arg, due |-> now + HookDelay]}

\* the render after a state update, and the effect of useTheme.tsx:167-169,
\* which runs when the query differs from that of the previous render
RenderEffect(newQuery) ==
  IF newQuery # hookQuery
  THEN /\ hookTimers' = DebouncedCall(hookTimers, hookChanges + 1, newQuery, hookNow)
       /\ hookChanges' = hookChanges + 1
       /\ hookLastChange' = hookNow
  ELSE UNCHANGED <<hookTimers, hookChanges, hookLastChange>>

\* timers run as soon as they are due, before anything else at that instant
TimerDue == \E t \in hookTimers : t.due <= hookNow

InitHook ==
  /\ hookQuery = <<>>
  /\ hookSuggestions = <<>>
  /\ hookLoading = FALSE
  /\ hookOpen = FALSE
  /\ hookLastQuery = <<>>
  /\ hookController = 0
  /\ hookAborted = {}
  \* the effect of the first render
  /\ hookTimers = DebouncedCall({}, 0, <<>>, 0)
  /\ hookFetches = {}
  /\ hookNow = 0
  /\ hookChanges = 0
  /\ hookLastChange = 0
  /\ hookCall = NoCall
  /\ hookSettled = NoSettled

\* the input's onChange: setQuery(value)
HookSetQuery ==
  /\ ~TimerDue
  /\ hookChanges < MaxChanges
  /\ \E value \in TypedQueries :
       /\ value # hookQuery
       /\ hookQuery' = value
       /\ RenderEffect(value)
  /\ UNCHANGED <<hookSuggestions, hookLoading, hookOpen, hookLastQuery, hookController,
                 hookAborted, hookFetches, hookNow, hookCall, hookSettled>>

\* setIsOpen, called by the component
HookSetOpen ==
  /\ ~TimerDue
  /\ hookOpen' = ~hookOpen
  /\ UNCHANGED <<hookQuery, hookSuggestions, hookLoading, hookLastQuery, hookController,
                 hookAborted, hookTimers, hookFetches, hookNow, hookChanges,
                 hookLastChange, hookCall, hookSettled>>

\* a timer fires: performSearch(arg) up to its await (useTheme.tsx:119-149)
HookTimerFire ==
  \E t \in hookTimers :
    LET trimmedQuery == Trim(t.arg) IN
    /\ t.due <= hookNow
    /\ hookTimers' = hookTimers \ {t}
    /\ hookCall' = [n |-> hookCall.n + 1, change |-> t.n, arg |-> t.arg, query |-> hookQuery,
                    at |-> hookNow, lastChange |-> hookLastChange]
    /\ IF Len(trimmedQuery) < 3
       THEN /\ hookSuggestions' = <<>>
            /\ hookLoading' = FALSE
            /\ hookFetches' = Since(hookFetches, "short")
            /\ UNCHANGED <<hookLastQuery, hookController, hookAborted>>
       ELSE IF trimmedQuery = hookLastQuery
       THEN UNCHANGED <<hookSuggestions, hookLoading, hookLastQuery, hookController,
                        hookAborted, hookFetches>>
       ELSE /\ hookLastQuery' = trimmedQuery
            /\ hookAborted' = IF hookController # 0 THEN hookAborted \cup {hookController}
                              ELSE hookAborted
            /\ hookController' = hookController + 1
            /\ hookLoading' = TRUE
            \* the controller's signal is not handed to searchLocations
            /\ hookFetches' = Since(hookFetches, "search") \cup
                 {[controller |-> hookController + 1, query |-> trimmedQuery,
                   since |-> {}]}
            /\ UNCHANGED hookSuggestions
    /\ UNCHANGED <<hookQuery, hookOpen, hookNow, hookChanges, hookLastChange, hookSettled>>

\* searchLocations resolves: the rest of performSearch (useTheme.tsx:151-162)
HookSettle ==
  \E f \in hookFetches, locations \in SearchResults :
    /\ hookFetches' = hookFetches \ {f}
    /\ hookSuggestions' = IF f.query = hookLastQuery THEN locations ELSE hookSuggestions
    /\ hookLoading' = FALSE
    /\ hookSettled' = [query |-> f.query, applied |-> f.query = hookLastQuery,
                       since |-> f.since]
    /\ UNCHANGED <<hookQuery, hookOpen, hookLastQuery, hookController, hookAborted,
                   hookTimers, hookNow, hookChanges, hookLastChange, hookCall>>

\* handleLocationSelect(location), location being one of the suggestions
HookSelect ==
  /\ ~TimerDue
  /\ hookChanges < MaxChanges
  /\ \E i \in 1..Len(hookSuggestions) :
       /\ hookQuery' = hookSuggestions[i].address
       /\ hookLastQuery' = hookSuggestions[i].address
       /\ RenderEffect(hookSuggestions[i].address)
  /\ hookOpen' = FALSE
  /\ hookSuggestions' = <<>>
  /\ hookFetches' = Since(hookFetches, "select")
  /\ UNCHANGED <<hookLoading, hookController, hookAborted, hookNow, hookCall, hookSettled>>

\* clearSearch()
HookClear ==
  /\ ~TimerDue
  /\ hookChanges < MaxChanges
  /\ hookQuery' = <<>>
  /\ hookSuggestions' = <<>>
  /\ hookOpen' = FALSE
  /\ hookLastQuery' = <<>>
  /\ RenderEffect(<<>>)
  /\ hookFetches' = Since(hookFetches, "clear")
  /\ UNCHANGED <<hookLoading, hookController, hookAborted, hookNow, hookCall, hookSettled>>

\* time passes
HookTick ==
  /\ ~TimerDue
  /\ hookNow < MaxHookTicks * HookTickMs
  /\ hookNow' = hookNow + HookTickMs
  /\ UNCHANGED <<hookQuery, hookSuggestions, hookLoading, hookOpen, hookLastQuery,
                 hookController, hookAborted, hookTimers, hookFetches, hookChanges,
                 hookLastChange, hookCall, hookSettled>>

NextHook ==
  \/ HookSetQuery /\ UNCHANGED <<fareVars, apiVars, geoVars, becknVars, formVars, distVars, gazVars, revVars, fmtVars, themeVars>>
  \/ HookSetOpen /\ UNCHANGED <<fareVars, apiVars, geoVars, becknVars, formVars, distVars, gazVars, revVars, fmtVars, themeVars>>
  \/ HookTimerFire /\ UNCHANGED <<fareVars, apiVars, geoVars, becknVars, formVars, distVars, gazVars, revVars, fmtVars, themeVars>>
  \/ HookSettle /\ UNCHANGED <<fareVars, apiVars, geoVars, becknVars, formVars, distVars, gazVars, revVars, fmtVars, themeVars>>
  \/ HookSelect /\ UNCHANGED <<fareVars, apiVars, geoVars, becknVars, formVars, distVars, gazVars, revVars, fmtVars, themeVars>>
  \/ HookClear /\ UNCHANGED <<fareVars, apiVars, geoVars, becknVars, formVars, distVars, gazVars, revVars, fmtVars, themeVars>>
  \/ HookTick /\ UNCHANGED <<fareVars, apiVars, geoVars, becknVars, formVars, distVars, gazVars, revVars, fmtVars, themeVars>>

(***************************************************************************)
(* SearchCard.handleSubmit and RidesPage.handleSearch                      *)
(* (components/SearchCard.tsx:14-34, 343-355)                              *)
(***************************************************************************)

\* number of form submissions in a behaviour
MaxSubmits == 2

\* "Delhi Camp" at latitude 95: Photon features are kept whenever both
\* coordinates are numbers (part_008:103)
FOut == [hasCoords |-> TRUE, lat |-> 9500000, lng |-> 7720900,
         properties |-> [NoProps EXCEPT !.name = <<68, 101, 108, 104, 105, 32, 67, 97, 109, 112>>,
                           !.countrycode = <<105, 110>>, !.osm_id = "21",
                           !.osm_type = "N", !.type = "village"]]
\* "Delhi Gate" whose lat is not a number: parseFloat gives NaN (part_008:184)
NNaN == [NoItem EXCEPT !.lat = NaN, !.lon = 7724000,
           !.display_name = <<68, 101, 108, 104, 105, 32, 71, 97, 116, 101>>,
           !.place_id = "121", !.type = "attraction", !.class = "tourism"]

\* "delhi"
Q_DelhiTrimmed == Trim(Q_Delhi)

\* the suggestions a search field can show for "delhi": what searchLocations
\* returns for these backend responses
FormSuggestionLists ==
  { mergeAndRankResults(
      PhotonLocations(<<F1, FOut>>, [proximity |-> TRUE, country |-> <<105, 110>>, limit |-> 5])
        \o NominatimLocations(<<NNaN, N4>>),
      Q_DelhiTrimmed, 5) }

FormSuggestions == UNION {{list[i] : i \in 1..Len(list)} : list \in FormSuggestionLists}

NoLocation == [lat |-> 0, lng |-> 0, address |-> NoStr, placeId |-> "null"]

\* utils/index.ts:106-115; a comparison with NaN is false
isValidLocation(location) ==
  /\ location # NoLocation
  /\ location.lat # NaN /\ location.lng # NaN
  /\ (IF location.lat < 0 THEN -location.lat ELSE location.lat) <= 9000000
  /\ (IF location.lng < 0 THEN -location.lng ELSE location.lng) <= 18000000

\* the error state: null, or a message
NullError == [isNull |-> TRUE, message |-> <<>>]
ErrorOf(message) == [isNull |-> FALSE, message |-> message]

\* lists of ride results a compare response can carry
ResultLists == {<<>>, <<"uber-auto">>, <<"ola-auto", "rapido-bike">>}

\* api.ts:35-36: errorData.message || `HTTP ${response.status}`
HttpErrorMessage(errorData, status) ==
  IF errorData.message # <<>> THEN errorData.message
  ELSE <<72, 84, 84, 80, 32>> \o Digits(status)

\* the bodies of error responses (message absent or empty is <<>>) and the
\* messages of what fetch and response.json() throw
ErrorBodies == {[message |-> <<>>], [message |-> <<83, 101, 114, 118, 105, 99, 101, 32, 117, 110, 97, 118, 97, 105, 108, 97, 98, 108, 101>>]}
ErrorStatuses == {404, 503}
NetworkMessages == {<<70, 97, 105, 108, 101, 100, 32, 116, 111, 32, 102, 101, 116, 99, 104>>}

\* what rideService.compareRides settles with: a response, the body null,
\* or an ApiError (api.ts:30-50, 54-73)
CompareOutcomes ==
  {[kind |-> "response", results |-> r, message |-> <<>>] : r \in ResultLists}
    \cup {[kind |-> "null", results |-> <<>>, message |-> <<>>]}
    \cup {[kind |-> "ApiError", results |-> <<>>, message |-> HttpErrorMessage(b, st)] :
            b \in ErrorBodies, st \in ErrorStatuses}
    \cup {[kind |-> "ApiError", results |-> <<>>, message |-> m] : m \in NetworkMessages}

NoOutcomeYet == [kind |-> "none", results |-> <<>>, message |-> <<>>]

\* what the try block throws when the response is null: the TypeError of
\* reading response.results
NullResponseMessage ==
  <<67, 97, 110, 110, 111, 116, 32, 114, 101, 97, 100, 32, 112, 114, 111, 112, 101, 114, 116, 105, 101, 115, 32, 111, 102, 32, 110, 117, 108, 108, 32, 40, 114, 101, 97, 100, 105, 110, 103, 32, 39, 114, 101, 115, 117, 108, 116, 115, 39, 41>>

\* the submit button enabled whatever isLoading is
canSubmitWhileLoading(pickup, dropoff, isLoading) ==
  pickup # NoLocation /\ dropoff # NoLocation

\* SearchCard.tsx:34: pickup && dropoff && !isLoading
canSubmit(pickup, dropoff, isLoading) ==
  pickup # NoLocation /\ dropoff # NoLocation /\ ~isLoading

InitForm ==
  /\ formResults = <<>>
  /\ formError = NullError
  /\ formPending = {}
  /\ formSettled = NoOutcomeYet
  /\ formPickup = NoLocation
  /\ formDropoff = NoLocation
  /\ formVehicleType = "auto"
  /\ formLoading = FALSE
  /\ formCalls = 0
  /\ formLast = [pickup |-> NoLocation, dropoff |-> NoLocation, vehicleType |-> "auto"]

\* a pickup suggestion is clicked: onLocationSelect = setPickup
FormSelectPickup ==
  /\ \E location \in FormSuggestions : formPickup' = location
  /\ UNCHANGED <<formDropoff, formVehicleType, formLoading, formCalls, formLast,
                 formResults, formError, formPending, formSettled>>

\* a drop-off suggestion is clicked: onLocationSelect = setDropoff
FormSelectDropoff ==
  /\ \E location \in FormSuggestions : formDropoff' = location
  /\ UNCHANGED <<formPickup, formVehicleType, formLoading, formCalls, formLast,
                 formResults, formError, formPending, formSettled>>

\* a vehicle button is clicked
FormSetVehicleType ==
  /\ \E type \in {"auto", "bike", "car"} : formVehicleType' = type
  /\ UNCHANGED <<formPickup, formDropoff, formLoading, formCalls, formLast,
                 formResults, formError, formPending, formSettled>>

\* the form is submitted (the button is enabled only when canSubmit):
\* handleSubmit calls onSearch, which is RidesPage.handleSearch up to its
\* await (SearchCard.tsx:343-347)
FormSubmit ==
  /\ formCalls < MaxSubmits
  /\ canSubmit(formPickup, formDropoff, formLoading)
  /\ formLast' = [pickup |-> formPickup, dropoff |-> formDropoff,
                  vehicleType |-> formVehicleType]
  /\ formCalls' = formCalls + 1
  /\ formLoading' = TRUE
  /\ formError' = NullError
  /\ formPending' = formPending \cup {formCalls + 1}
  /\ UNCHANGED <<formPickup, formDropoff, formVehicleType, formResults, formSettled>>

\* compareRides settles: the rest of the try block, the catch block and
\* the finally block of handleSearch (SearchCard.tsx:347-354)
FormSearchDone ==
  \E call \in formPending, outcome \in CompareOutcomes :
    /\ formPending' = formPending \ {call}
    /\ formSettled' = outcome
    /\ IF outcome.kind = "response"
       THEN /\ formResults' = outcome.results
            /\ UNCHANGED formError
       ELSE /\ formError' = ErrorOf(IF outcome.kind = "null" THEN NullResponseMessage
                                    ELSE outcome.message)
            /\ formResults' = <<>>
    /\ formLoading' = FALSE
    /\ UNCHANGED <<formPickup, formDropoff, formVehicleType, formCalls, formLast>>

NextForm ==
  \/ FormSelectPickup /\ UNCHANGED <<fareVars, apiVars, geoVars, becknVars, hookVars, distVars, gazVars, revVars, fmtVars, themeVars>>
  \/ FormSelectDropoff /\ UNCHANGED <<fareVars, apiVars, geoVars, becknVars, hookVars, distVars, gazVars, revVars, fmtVars, themeVars>>
  \/ FormSetVehicleType /\ UNCHANGED <<fareVars, apiVars, geoVars, becknVars, hookVars, distVars, gazVars, revVars, fmtVars, themeVars>>
  \/ FormSubmit /\ UNCHANGED <<fareVars, apiVars, geoVars, becknVars, hookVars, distVars, gazVars, revVars, fmtVars, themeVars>>
  \/ FormSearchDone /\ UNCHANGED <<fareVars, apiVars, geoVars, becknVars, hookVars, distVars, gazVars, revVars, fmtVars, themeVars>>

(***************************************************************************)
(* Specifications                                                          *)
(***************************************************************************)

(***************************************************************************)
(* Great-circle distance: calculateDistance (utils/index.ts),              *)
(* calculateDistance (services/geocoding) and computeDistanceKm (api.ts).  *)
(*                                                                         *)
(* Coordinates are whole degrees.  Sines, cosines, haversines and radians  *)
(* are in 1/Unit, and every product, root and arctangent is rounded to the *)
(* nearest 1/Unit where the double arithmetic of the code rounds to the    *)
(* nearest double: the rounding happens at the same places, with a larger  *)
(* step.                                                                   *)
(***************************************************************************)
Unit == 10000

\* Math.PI / 2
HalfPi == 15708

Abs(x) == IF x < 0 THEN 0 - x ELSE x

\* x * y, rounded to nearest; the rounding is the same for either sign
Times(x, y) ==
  LET p == x * y
  IN IF p >= 0 THEN RoundDiv(p, Unit) ELSE 0 - RoundDiv(0 - p, Unit)

\* latitudes and longitudes of the points tried, degrees
Lats == {-8, 6, 8, 28}
Lngs == {0, 77, 180}

\* Math.sin(toRadians(d) / 2) for the differences d >= 0 of two coordinates
SineOfHalf ==
  (0 :> 0) @@ (2 :> 175) @@ (14 :> 1219) @@ (16 :> 1392) @@ (20 :> 1736)
  @@ (22 :> 1908) @@ (36 :> 3090) @@ (77 :> 6225) @@ (103 :> 7826)
  @@ (180 :> 10000)

\* Math.sin(dLat / 2): sine is odd
sinHalf(d) == IF d < 0 THEN 0 - SineOfHalf[0 - d] ELSE SineOfHalf[d]

\* Math.cos(toRadians(lat)): cosine is even
Cosine == (6 :> 9945) @@ (8 :> 9903) @@ (28 :> 8829)
cosDeg(lat) == Cosine[Abs(lat)]

\* the largest r in lo..hi with r * r <= m
RECURSIVE SqrtFloor(_, _, _)
SqrtFloor(m, lo, hi) ==
  IF lo = hi THEN lo
  ELSE LET mid == (lo + hi + 1) \div 2
       IN IF mid * mid <= m THEN SqrtFloor(m, mid, hi)
          ELSE SqrtFloor(m, lo, mid - 1)

\* Math.sqrt of x in 0..Unit, to the nearest 1/Unit; NaN for a negative x
MathSqrt(x) ==
  IF x = NaN \/ x < 0 THEN NaN
  ELSE LET m == x * Unit
           r == SqrtFloor(m, 0, Unit)
       IN IF m - r * r > r THEN r + 1 ELSE r

\* Math.atan(k / 32) for k = 0..32
AtanTable ==
  << 0, 312, 624, 935, 1244, 1550, 1853, 2154, 2450, 2742, 3029, 3311, 3588,
     3859, 4124, 4383, 4636, 4883, 5124, 5358, 5586, 5808, 6023, 6232, 6435,
     6632, 6823, 7009, 7188, 7363, 7532, 7695, 7854 >>

\* Math.atan(t) for t in 0..Unit, interpolated between the table entries
AtanUnit(t) ==
  LET k == (t * 32) \div Unit
  IN IF k >= 32 THEN AtanTable[33]
     ELSE AtanTable[k + 1]
          + RoundDiv((AtanTable[k + 2] - AtanTable[k + 1]) * (t * 32 - k * Unit), Unit)

\* Math.atan2(y, x) for y, x >= 0; NaN when an argument is NaN
MathAtan2(y, x) ==
  IF y = NaN \/ x = NaN THEN NaN
  ELSE IF y = 0 /\ x = 0 THEN 0
  ELSE IF y <= x THEN AtanUnit(RoundDiv(y * Unit, x))
  ELSE HalfPi - AtanUnit(RoundDiv(x * Unit, y))

\* 2 * Math.atan2(Math.sqrt(a), Math.sqrt(1 - a))
Arc(a) ==
  LET t == MathAtan2(MathSqrt(a), MathSqrt(Unit - a))
  IN IF t = NaN THEN NaN ELSE 2 * t

\* utils/index.ts:117-135, metres
calculateDistanceMeters(lat1, lng1, lat2, lng2) ==
  LET sp == sinHalf(lat2 - lat1)
      sl == sinHalf(lng2 - lng1)
      a  == Times(sp, sp)
            + Times(Times(Times(cosDeg(lat1), cosDeg(lat2)), sl), sl)
      c  == Arc(a)
  IN IF c = NaN THEN NaN ELSE RoundDiv(6371 * c, 10)

\* services/geocoding calculateDistance (part_008:387-401), 1/100 km
calculateDistance(loc1, loc2) ==
  LET dLat == sinHalf(loc2.lat - loc1.lat)
      dLng == sinHalf(loc2.lng - loc1.lng)
      a == Times(dLat, dLat)
           + Times(Times(Times(cosDeg(loc1.lat), cosDeg(loc2.lat)), dLng), dLng)
      c == Arc(a)
  IN IF c = NaN THEN NaN ELSE RoundDiv(6371 * c, 100)

\* api.ts:92-101, earthRadiusKm * arc in 1/100 km; arithmetic on a NaN
\* coordinate gives NaN
earthRadiusArc(a, b) ==
  IF a.lat = NaN \/ a.lng = NaN \/ b.lat = NaN \/ b.lng = NaN THEN NaN
  ELSE LET dLat == sinHalf(b.lat - a.lat)
           dLng == sinHalf(b.lng - a.lng)
           haversine == Times(dLat, dLat)
                        + Times(Times(Times(dLng, dLng), cosDeg(a.lat)), cosDeg(b.lat))
           arc == Arc(haversine)
       IN IF arc = NaN THEN NaN ELSE RoundDiv(6371 * arc, 100)

\* a Location with coordinates on the grid
Points == [given : {TRUE}, lat : Lats, lng : Lngs]

\* request.pickup or request.dropoff absent
Missing == [given |-> FALSE, lat |-> 0, lng |-> 0]

\* a Location whose lat is parseFloat of a text that is not a number
\* (part_008:184)
NaNPlace == [given |-> TRUE, lat |-> NaN, lng |-> 77]

\* the request as far as computeDistanceKm reads it
DistRequest(a, b) ==
  [NoRequest EXCEPT !.hasLocs = a.given /\ b.given,
                    !.arc = IF a.given /\ b.given THEN earthRadiusArc(a, b) ELSE 0]

NoHelper == [metersFwd |-> 0, metersBwd |-> 0, kmFwd |-> 0, kmBwd |-> 0]
NoKm == [fwd |-> 0, bwd |-> 0]

InitDist ==
  /\ distPc = "idle"
  /\ distPickup = Missing
  /\ distDropoff = Missing
  /\ distHelper = NoHelper
  /\ distKm = NoKm

\* the two calculateDistance helpers applied to two Locations, in both orders
DistHelpers ==
  \E a \in Points, b \in Points :
    /\ distPc' = "helpers"
    /\ distPickup' = a
    /\ distDropoff' = b
    /\ distHelper' = [metersFwd |-> calculateDistanceMeters(a.lat, a.lng, b.lat, b.lng),
                      metersBwd |-> calculateDistanceMeters(b.lat, b.lng, a.lat, a.lng),
                      kmFwd |-> calculateDistance(a, b),
                      kmBwd |-> calculateDistance(b, a)]
    /\ distKm' = NoKm

\* computeDistanceKm(request.pickup, request.dropoff) and, in a second
\* request, computeDistanceKm(request.dropoff, request.pickup)
DistFare ==
  \E a \in Points \cup {Missing, NaNPlace}, b \in Points \cup {Missing, NaNPlace},
     c \in DrawVals :
    /\ distPc' = "fare"
    /\ distPickup' = a
    /\ distDropoff' = b
    /\ distHelper' = NoHelper
    /\ distKm' = [fwd |-> computeDistanceKm(DistRequest(a, b), ConstantTape(c), 0),
                  bwd |-> computeDistanceKm(DistRequest(b, a), ConstantTape(c), 0)]

NextDist ==
  \/ DistHelpers /\ UNCHANGED <<fareVars, apiVars, geoVars, becknVars, hookVars, formVars, gazVars, revVars, fmtVars, themeVars>>
  \/ DistFare /\ UNCHANGED <<fareVars, apiVars, geoVars, becknVars, hookVars, formVars, gazVars, revVars, fmtVars, themeVars>>

(***************************************************************************)
(* The static gazetteers: generateMockSuggestions of services/geocoding and *)
(* of hooks/useLocationSearch.ts                                           *)
(***************************************************************************)

\* useLocationSearch.ts:108-117
hookMockLocations == <<
  \* Connaught Place, New Delhi
  [lat |-> 2861390, lng |-> 7720900, placeId |-> "undefined",
   address |-> <<67, 111, 110, 110, 97, 117, 103, 104, 116, 32, 80, 108, 97, 99, 101, 44, 32, 78, 101, 119, 32, 68, 101, 108, 104, 105>>],
  \* Noida City Centre, Noida
  [lat |-> 2853550, lng |-> 7739100, placeId |-> "undefined",
   address |-> <<78, 111, 105, 100, 97, 32, 67, 105, 116, 121, 32, 67, 101, 110, 116, 114, 101, 44, 32, 78, 111, 105, 100, 97>>],
  \* Cyber Hub, Gurugram
  [lat |-> 2845950, lng |-> 7702660, placeId |-> "undefined",
   address |-> <<67, 121, 98, 101, 114, 32, 72, 117, 98, 44, 32, 71, 117, 114, 117, 103, 114, 97, 109>>],
  \* Akshardham Temple, Delhi
  [lat |-> 2866920, lng |-> 7745380, placeId |-> "undefined",
   address |-> <<65, 107, 115, 104, 97, 114, 100, 104, 97, 109, 32, 84, 101, 109, 112, 108, 101, 44, 32, 68, 101, 108, 104, 105>>],
  \* Hauz Khas Village, Delhi
  [lat |-> 2852740, lng |-> 7720650, placeId |-> "undefined",
   address |-> <<72, 97, 117, 122, 32, 75, 104, 97, 115, 32, 86, 105, 108, 108, 97, 103, 101, 44, 32, 68, 101, 108, 104, 105>>],
  \* Karol Bagh, Delhi
  [lat |-> 2865080, lng |-> 7723110, placeId |-> "undefined",
   address |-> <<75, 97, 114, 111, 108, 32, 66, 97, 103, 104, 44, 32, 68, 101, 108, 104, 105>>],
  \* India Gate, New Delhi
  [lat |-> 2863040, lng |-> 7721770, placeId |-> "undefined",
   address |-> <<73, 110, 100, 105, 97, 32, 71, 97, 116, 101, 44, 32, 78, 101, 119, 32, 68, 101, 108, 104, 105>>],
  \* Red Fort, Delhi
  [lat |-> 2865620, lng |-> 7724100, placeId |-> "undefined",
   address |-> <<82, 101, 100, 32, 70, 111, 114, 116, 44, 32, 68, 101, 108, 104, 105>>] >>

\* useLocationSearch.ts:107-124
hookGenerateMockSuggestions(query) ==
  Take(FilterByQuery(hookMockLocations, ToLower(query)), 5)

\* texts whose parts are typed as queries
GazPhrases ==
  { \* "Connaught Place"
    <<67, 111, 110, 110, 97, 117, 103, 104, 116, 32, 80, 108, 97, 99, 101>>,
    \* "connaught place"
    <<99, 111, 110, 110, 97, 117, 103, 104, 116, 32, 112, 108, 97, 99, 101>>,
    \* "DELHI, in"
    <<68, 69, 76, 72, 73, 44, 32, 105, 110>> }

\* every part of a phrase, the empty query included
GazQueries ==
  {<<>>} \cup UNION { UNION { {SubSeq(p, i, j) : j \in i..Len(p)} : i \in 1..Len(p) } :
                      p \in GazPhrases }

InitGaz ==
  /\ gazSource = "none"
  /\ gazQuery = <<>>
  /\ gazResult = <<>>

\* generateMockSuggestions(query) of services/geocoding
GazLookup ==
  \E q \in GazQueries :
    /\ gazSource' = "geocoding"
    /\ gazQuery' = q
    /\ gazResult' = generateMockSuggestions(q)

\* generateMockSuggestions(query) of useLocationSearch.ts
GazHookLookup ==
  \E q \in GazQueries :
    /\ gazSource' = "hook"
    /\ gazQuery' = q
    /\ gazResult' = hookGenerateMockSuggestions(q)

NextGaz ==
  \/ GazLookup /\ UNCHANGED <<fareVars, apiVars, geoVars, becknVars, hookVars, formVars, distVars, revVars, fmtVars, themeVars>>
  \/ GazHookLookup /\ UNCHANGED <<fareVars, apiVars, geoVars, becknVars, hookVars, formVars, distVars, revVars, fmtVars, themeVars>>

(***************************************************************************)
(* reverseGeocode and getCurrentLocation (part_008:301-379)                *)
(***************************************************************************)

\* coordinates tried, 1/100000 degree: 28.6139, -0.5, 0.00005, 90 and
\* 77.209, -123.45678
RevLats == {2861390, -50000, 5, 9000000}
RevLngs == {7720900, -12345678}

\* the response body of /reverse as far as it is read
NoData == [isNull |-> TRUE, display_name |-> NoStr, place_id |-> ""]
RevBodies ==
  { NoData,
    \* {} and { display_name: "" }
    [isNull |-> FALSE, display_name |-> NoStr, place_id |-> "7"],
    \* { display_name: "Delhi, India", place_id: 7 }
    [isNull |-> FALSE, display_name |-> <<68, 101, 108, 104, 105, 44, 32, 73, 110, 100, 105, 97>>, place_id |-> "7"],
    \* { display_name: "Delhi, India" }
    [isNull |-> FALSE, display_name |-> <<68, 101, 108, 104, 105, 44, 32, 73, 110, 100, 105, 97>>, place_id |-> ""] }

\* "network": fetch rejects; "notok": response.ok is false; "badjson":
\* response.json() rejects; "data": a body was read
RevOutcomes ==
  {[kind |-> k, data |-> NoData] : k \in {"network", "notok", "badjson"}}
    \cup {[kind |-> "data", data |-> d] : d \in RevBodies}
NoRevOutcome == [kind |-> "none", data |-> NoData]

\* `${lat.toFixed(6)}, ${lng.toFixed(6)}`
CoordinateAddress(lat, lng) == ToFixed6(lat) \o <<44, 32>> \o ToFixed6(lng)

NoPlace == [lat |-> 0, lng |-> 0, address |-> NoStr, placeId |-> "undefined"]

\* the catch block rethrows instead of returning the coordinates
reverseGeocodeRethrowing(lng, lat, outcome) ==
  IF outcome.kind \in {"network", "notok", "badjson"}
  THEN [rejected |-> TRUE, value |-> NoPlace]
  ELSE IF ~outcome.data.isNull /\ outcome.data.display_name # NoStr
  THEN [rejected |-> FALSE,
        value |-> [lat |-> lat, lng |-> lng, address |-> outcome.data.display_name,
                   placeId |-> IF outcome.data.place_id = "" THEN "undefined"
                               ELSE outcome.data.place_id]]
  ELSE [rejected |-> FALSE,
        value |-> [lat |-> lat, lng |-> lng, address |-> CoordinateAddress(lat, lng),
                   placeId |-> "undefined"]]

\* reverseGeocode(lng, lat) (part_008:301-341) once the request has settled:
\* how its promise settles
reverseGeocode(lng, lat, outcome) ==
  IF outcome.kind \in {"network", "notok", "badjson"}
  THEN \* catch (error)
       [rejected |-> FALSE,
        value |-> [lat |-> lat, lng |-> lng, address |-> CoordinateAddress(lat, lng),
                   placeId |-> "undefined"]]
  ELSE IF ~outcome.data.isNull /\ outcome.data.display_name # NoStr
  THEN [rejected |-> FALSE,
        value |-> [lat |-> lat, lng |-> lng, address |-> outcome.data.display_name,
                   placeId |-> IF outcome.data.place_id = "" THEN "undefined"
                               ELSE outcome.data.place_id]]
  ELSE [rejected |-> FALSE,
        value |-> [lat |-> lat, lng |-> lng, address |-> CoordinateAddress(lat, lng),
                   placeId |-> "undefined"]]

InitRev ==
  /\ revPc = "idle"
  /\ revVia = "none"
  /\ revLat = 0
  /\ revLng = 0
  /\ revOutcome = NoRevOutcome
  /\ revInner = "none"
  /\ revResult = NoPlace
  /\ revError = "none"

\* reverseGeocode(lng, lat) called by a caller of its own
RevCall ==
  /\ revPc = "idle"
  /\ \E lat \in RevLats, lng \in RevLngs :
       /\ revLat' = lat
       /\ revLng' = lng
  /\ revVia' = "direct"
  /\ revPc' = "fetching"
  /\ UNCHANGED <<revOutcome, revInner, revResult, revError>>

\* getCurrentLocation() up to getCurrentPosition (part_008:347-354)
CurrentLocationCall ==
  /\ revPc = "idle"
  /\ revVia' = "current"
  /\ \E supported \in BOOLEAN :
       IF supported
       THEN /\ revPc' = "locating"
            /\ UNCHANGED revError
       ELSE /\ revPc' = "rejected"
            /\ revError' = "Geolocation is not supported by your browser"
  /\ UNCHANGED <<revLat, revLng, revOutcome, revInner, revResult>>

\* the success callback starts reverseGeocode(longitude, latitude)
PositionSuccess ==
  /\ revPc = "locating"
  /\ \E latitude \in RevLats, longitude \in RevLngs :
       /\ revLat' = latitude
       /\ revLng' = longitude
  /\ revPc' = "fetching"
  /\ UNCHANGED <<revVia, revOutcome, revInner, revResult, revError>>

\* the error callback
PositionError ==
  /\ revPc = "locating"
  /\ revPc' = "rejected"
  /\ revError' = "Geolocation error"
  /\ UNCHANGED <<revVia, revLat, revLng, revOutcome, revInner, revResult>>

\* the request to /reverse settles and reverseGeocode finishes; under
\* getCurrentLocation the callback resolves with its result, or with the
\* coordinates if it rejected (part_008:360-371)
RevSettle ==
  /\ revPc = "fetching"
  /\ \E outcome \in RevOutcomes :
       LET r == reverseGeocode(revLng, revLat, outcome) IN
       /\ revOutcome' = outcome
       /\ revInner' = IF r.rejected THEN "rejected" ELSE "resolved"
       /\ IF ~r.rejected
          THEN /\ revPc' = "resolved"
               /\ revResult' = r.value
               /\ UNCHANGED revError
          ELSE IF revVia = "current"
          THEN /\ revPc' = "resolved"
               /\ revResult' = [lat |-> revLat, lng |-> revLng,
                                address |-> CoordinateAddress(revLat, revLng),
                                placeId |-> "undefined"]
               /\ UNCHANGED revError
          ELSE /\ revPc' = "rejected"
               /\ revError' = "Reverse geocoding error"
               /\ UNCHANGED revResult
  /\ UNCHANGED <<revVia, revLat, revLng>>

\* the caller has consumed the settled promise
RevDone ==
  /\ revPc \in {"resolved", "rejected"}
  /\ revPc' = "idle"
  /\ revVia' = "none"
  /\ revLat' = 0
  /\ revLng' = 0
  /\ revOutcome' = NoRevOutcome
  /\ revInner' = "none"
  /\ revResult' = NoPlace
  /\ revError' = "none"

NextRev ==
  \/ RevCall /\ UNCHANGED <<fareVars, apiVars, geoVars, becknVars, hookVars, formVars, distVars, gazVars, fmtVars, themeVars>>
  \/ CurrentLocationCall /\ UNCHANGED <<fareVars, apiVars, geoVars, becknVars, hookVars, formVars, distVars, gazVars, fmtVars, themeVars>>
  \/ PositionSuccess /\ UNCHANGED <<fareVars, apiVars, geoVars, becknVars, hookVars, formVars, distVars, gazVars, fmtVars, themeVars>>
  \/ PositionError /\ UNCHANGED <<fareVars, apiVars, geoVars, becknVars, hookVars, formVars, distVars, gazVars, fmtVars, themeVars>>
  \/ RevSettle /\ UNCHANGED <<fareVars, apiVars, geoVars, becknVars, hookVars, formVars, distVars, gazVars, fmtVars, themeVars>>
  \/ RevDone /\ UNCHANGED <<fareVars, apiVars, geoVars, becknVars, hookVars, formVars, distVars, gazVars, fmtVars, themeVars>>

(***************************************************************************)
(* formatDuration (utils/index.ts:12-17)                                   *)
(***************************************************************************)

\* durations up to this many minutes are formatted
MaxMinutes == 60

\* durations in half seconds: from one minute below zero to MaxMinutes
Durations == (0 - 120)..(120 * MaxMinutes + 119)

\* Math.round(seconds / 60) in place of Math.floor
formatDurationRounded(seconds) ==
  LET minutes == (seconds + 60) \div 120
  IN IF minutes < 1 THEN <<78, 111, 119>>
     ELSE IF minutes = 1 THEN <<49, 32, 109, 105, 110>>
     ELSE Digits(minutes) \o <<32, 109, 105, 110, 115>>

\* utils/index.ts:12-17; seconds in half seconds
formatDuration(seconds) ==
  LET minutes == seconds \div 120
  IN IF minutes < 1 THEN <<78, 111, 119>>
     ELSE IF minutes = 1 THEN <<49, 32, 109, 105, 110>>
     ELSE Digits(minutes) \o <<32, 109, 105, 110, 115>>

InitFmt ==
  /\ fmtPc = "idle"
  /\ fmtSeconds = 0
  /\ fmtText = <<>>

FormatDuration ==
  /\ fmtPc = "idle"
  /\ \E seconds \in Durations :
       /\ fmtSeconds' = seconds
       /\ fmtText' = formatDuration(seconds)
  /\ fmtPc' = "returned"

\* the caller has used the text
FormatDone ==
  /\ fmtPc = "returned"
  /\ fmtPc' = "idle"
  /\ fmtSeconds' = 0
  /\ fmtText' = <<>>

NextFmt ==
  \/ FormatDuration /\ UNCHANGED <<fareVars, apiVars, geoVars, becknVars, hookVars, formVars, distVars, gazVars, revVars, themeVars>>
  \/ FormatDone /\ UNCHANGED <<fareVars, apiVars, geoVars, becknVars, hookVars, formVars, distVars, gazVars, revVars, themeVars>>

(***************************************************************************)
(* ThemeProvider (hooks/useTheme.tsx:12-78) and the storage helpers        *)
(* (utils/index.ts:60-83).  The page runs in a browser: window and         *)
(* matchMedia exist, and localStorage accepts reads, writes and removals.  *)
(* A handler is modelled together with the render and the effects that     *)
(* follow it.                                                              *)
(***************************************************************************)

\* 'dark', 'light'
Dark == <<100, 97, 114, 107>>
Light == <<108, 105, 103, 104, 116>>
Themes == {Dark, Light}

\* localStorage.getItem gives null
NoStored == [present |-> FALSE, text |-> <<>>]
Item(text) == [present |-> TRUE, text |-> text]

\* JSON.stringify of a string without quotes or backslashes
JsonStringifyBare(value) == value
JsonStringify(value) == <<34>> \o value \o <<34>>

\* JSON.parse of an item: a string, null, or a SyntaxError thrown
JsonParse(text) ==
  IF Len(text) >= 2 /\ text[1] = 34 /\ text[Len(text)] = 34
     /\ \A i \in 2..(Len(text) - 1) : text[i] \notin {34, 92}
  THEN [kind |-> "string", value |-> SubSeq(text, 2, Len(text) - 1)]
  ELSE IF text = <<110, 117, 108, 108>> THEN [kind |-> "null", value |-> <<>>]
  ELSE [kind |-> "throws", value |-> <<>>]

\* utils/index.ts:60-67 with defaultValue null; an empty item is falsy
getStorageItem(storage) ==
  IF ~storage.present \/ storage.text = <<>> THEN [kind |-> "null", value |-> <<>>]
  ELSE IF JsonParse(storage.text).kind = "throws" THEN [kind |-> "null", value |-> <<>>]
  ELSE JsonParse(storage.text)

\* utils/index.ts:69-75
setStorageItem(value) == Item(JsonStringify(value))

\* useTheme.tsx:12-15: the stored theme, or null
getStoredTheme(storage) ==
  LET stored == getStorageItem(storage)
  IN IF stored.kind = "string" /\ (stored.value = Light \/ stored.value = Dark)
     THEN stored ELSE [kind |-> "null", value |-> <<>>]

\* useTheme.tsx:17-31
resolveInitialTheme(defaultTheme, storage, prefersDarkNow) ==
  LET stored == getStoredTheme(storage)
      prefersDark == prefersDarkNow   \* mediaQuery.matches
  IN IF stored.kind # "null" THEN stored.value
     ELSE IF prefersDark THEN Dark ELSE defaultTheme

\* useTheme.tsx:37-53: the effect on localStorage
StorageEffect(theme, hasUserPreference) ==
  LET nextTheme == IF theme = Dark THEN Dark ELSE Light
  IN IF hasUserPreference THEN setStorageItem(nextTheme) ELSE NoStored

\* the listener following the OS whatever hasUserPreference is
handleChangeAlways(theme, hasUserPreference, prefersDarkNow) ==
  IF prefersDarkNow THEN Dark ELSE Light

\* useTheme.tsx:58-62: the theme after a change event
handleChange(theme, hasUserPreference, prefersDarkNow) ==
  IF ~hasUserPreference THEN (IF prefersDarkNow THEN Dark ELSE Light) ELSE theme

\* what localStorage can hold when the page opens: '"dark"', '"light"',
\* 'dark', '"system"', '', 'null', or no item
ForeignItems ==
  { Item(<<34, 100, 97, 114, 107, 34>>), Item(<<34, 108, 105, 103, 104, 116, 34>>),
    Item(Dark), Item(<<34, 115, 121, 115, 116, 101, 109, 34>>),
    Item(<<>>), Item(<<110, 117, 108, 108>>), NoStored }

\* values setTheme is called with
ThemesSet == Themes

\* number of times the page is opened in a behaviour
MaxMounts == 3

InitTheme ==
  /\ themeMounted = FALSE
  /\ themeDefault = Dark
  /\ themeTheme = Dark
  /\ themeHasPref = FALSE
  /\ themeStorage = NoStored
  /\ themeOS = FALSE
  /\ themeMounts = 0
  /\ themeLast = "none"

\* before the page opens, something else leaves an item in localStorage
ThemeForeignWrite ==
  /\ ~themeMounted
  /\ themeMounts < MaxMounts
  /\ themeLast \in {"none", "unmount"}
  /\ \E item \in ForeignItems : themeStorage' = item
  /\ themeLast' = "write"
  /\ UNCHANGED <<themeMounted, themeDefault, themeTheme, themeHasPref, themeOS, themeMounts>>

\* a ThemeProvider mounts: the two state initialisers, then the effects
ThemeMount ==
  /\ ~themeMounted
  /\ themeMounts < MaxMounts
  /\ themeMounts' = themeMounts + 1
  /\ \E defaultTheme \in Themes :
       /\ themeDefault' = defaultTheme
       /\ themeTheme' = resolveInitialTheme(defaultTheme, themeStorage, themeOS)
       /\ themeHasPref' = (getStoredTheme(themeStorage).kind # "null")
       /\ themeStorage' =
            StorageEffect(resolveInitialTheme(defaultTheme, themeStorage, themeOS),
                          getStoredTheme(themeStorage).kind # "null")
  /\ themeMounted' = TRUE
  /\ themeLast' = "mount"
  /\ UNCHANGED themeOS

\* setTheme(newTheme), the render and the storage effect
ThemeSetTheme ==
  /\ themeMounted
  /\ \E newTheme \in ThemesSet :
       /\ themeTheme' = (IF newTheme = Dark THEN Dark ELSE Light)
       /\ themeStorage' = StorageEffect(IF newTheme = Dark THEN Dark ELSE Light, TRUE)
  /\ themeHasPref' = TRUE
  /\ themeLast' = "setTheme"
  /\ UNCHANGED <<themeMounted, themeDefault, themeOS, themeMounts>>

\* toggleTheme(), the render and the storage effect
ThemeToggle ==
  /\ themeMounted
  /\ themeTheme' = (IF themeTheme = Dark THEN Light ELSE Dark)
  /\ themeStorage' = StorageEffect(IF themeTheme = Dark THEN Light ELSE Dark, TRUE)
  /\ themeHasPref' = TRUE
  /\ themeLast' = "toggleTheme"
  /\ UNCHANGED <<themeMounted, themeDefault, themeOS, themeMounts>>

\* the OS colour scheme changes; a mounted provider's listener runs
ThemeOSChange ==
  /\ themeOS' = ~themeOS
  /\ IF themeMounted
     THEN /\ themeTheme' = handleChange(themeTheme, themeHasPref, ~themeOS)
          /\ themeStorage' =
               StorageEffect(handleChange(themeTheme, themeHasPref, ~themeOS),
                             themeHasPref)
     ELSE UNCHANGED <<themeTheme, themeStorage>>
  /\ themeLast' = (IF themeMounted THEN "change" ELSE themeLast)
  /\ UNCHANGED <<themeMounted, themeDefault, themeHasPref, themeMounts>>

\* the page is closed; localStorage stays
ThemeUnmount ==
  /\ themeMounted
  /\ themeMounted' = FALSE
  /\ themeLast' = "unmount"
  /\ UNCHANGED <<themeDefault, themeTheme, themeHasPref, themeStorage, themeOS, themeMounts>>

NextTheme ==
  \/ ThemeForeignWrite /\ UNCHANGED <<fareVars, apiVars, geoVars, becknVars, hookVars, formVars, distVars, gazVars, revVars, fmtVars>>
  \/ ThemeMount /\ UNCHANGED <<fareVars, apiVars, geoVars, becknVars, hookVars, formVars, distVars, gazVars, revVars, fmtVars>>
  \/ ThemeSetTheme /\ UNCHANGED <<fareVars, apiVars, geoVars, becknVars, hookVars, formVars, distVars, gazVars, revVars, fmtVars>>
  \/ ThemeToggle /\ UNCHANGED <<fareVars, apiVars, geoVars, becknVars, hookVars, formVars, distVars, gazVars, revVars, fmtVars>>
  \/ ThemeOSChange /\ UNCHANGED <<fareVars, apiVars, geoVars, becknVars, hookVars, formVars, distVars, gazVars, revVars, fmtVars>>
  \/ ThemeUnmount /\ UNCHANGED <<fareVars, apiVars, geoVars, becknVars, hookVars, formVars, distVars, gazVars, revVars, fmtVars>>

Init ==
  /\ InitFare /\ InitApi /\ InitGeo /\ InitBeckn /\ InitHook /\ InitForm
  /\ InitDist /\ InitGaz /\ InitRev /\ InitFmt /\ InitTheme

SpecFare == Init /\ [][NextFare]_vars
SpecFareTwice == Init /\ [][NextFareTwice]_vars
SpecApi == Init /\ [][NextApi]_vars
SpecGeo == Init /\ [][NextGeo]_vars
SpecBeckn == Init /\ [][NextBeckn]_vars
SpecHook == Init /\ [][NextHook]_vars
SpecForm == Init /\ [][NextForm]_vars
SpecDist == Init /\ [][NextDist]_vars
SpecGaz == Init /\ [][NextGaz]_vars
SpecRev == Init /\ [][NextRev]_vars
SpecFmt == Init /\ [][NextFmt]_vars
SpecTheme == Init /\ [][NextTheme]_vars

(***************************************************************************)
(* Claims                                                                  *)
(***************************************************************************)

\* the rate card a result was synthesized from
ServiceOf(result) ==
  CHOOSE s \in {serviceCatalog[i] : i \in 1..Len(serviceCatalog)} :
    s.serviceType = result.serviceType

\* C1: every price.value of a resolved mock response is at least the minFare
\* of its service, whatever the distance, time of day and random draws.
C1_PriceNeverBelowMinFare ==
  farePc = "resolved" =>
    \A i \in 1..Len(fareResults) : fareResults[i].value >= ServiceOf(fareResults[i]).minFare

\* a resolved response in which jitter pulled a clamped price under minFare
\* before the final clamp, and one in which surge applied
C1_Witness ==
  /\ farePc = "resolved"
  /\ \E i \in 1..Len(fareResults) :
       /\ fareResults[i].value = ServiceOf(fareResults[i]).minFare
       /\ fareResults[i].surge = 0
  /\ \E i \in 1..Len(fareResults) : fareResults[i].surge > 0

\* C10: in MOCK mode compareRides never rejects, and a failed POST (network
\* error, non-2xx status, unreadable body) resolves with the mock response
\* generated locally for the same request; in CLIENT_MOCK mode the backend is
\* never contacted.
C10_MockModeFallsBack ==
  /\ apiMode = "MOCK" => apiPc # "rejected"
  /\ (apiMode = "MOCK" /\ apiPc = "resolved" /\ apiFetched # "ok") =>
        /\ apiResponse.source = "mock"
        /\ apiResponse.request = apiReq
        /\ apiResponse.results = MockResults(apiReq, fareDist, fareTM, fareTape, fareK)
  /\ apiMode = "CLIENT_MOCK" => (apiFetches = 0 /\ apiFetched = "none")

\* MOCK mode, the backend answered with an HTTP error status, and the call
\* has resolved with a non-empty mock response
C10_Witness ==
  /\ apiMode = "MOCK"
  /\ apiPc = "resolved"
  /\ apiFetched = "httpError"
  /\ apiResponse.source = "mock"
  /\ Len(apiResponse.results) > 0

(***************************************************************************)
(* C2, C3: searchLocations and mergeAndRankResults                         *)
(***************************************************************************)

\* positions of the gazetteer entries whose lower-cased address contains the
\* lower-cased query
C2_Matching(query) ==
  {i \in 1..Len(mockLocations) :
     Includes(ToLower(mockLocations[i].address), ToLower(query))}

\* the first five of them, in gazetteer order
C2_Gazetteer(query) ==
  LET idx == C2_Matching(query)
      n   == IF Cardinality(idx) < 5 THEN Cardinality(idx) ELSE 5
  IN [k \in 1..n |->
        mockLocations[CHOOSE i \in idx : Cardinality({j \in idx : j < i}) = k - 1]]

\* what is returned from the locations of the backends that answered
C2_FromSurvivors(locations, ret) ==
  IF ScoringThrows(locations)
  THEN ret.results = C2_Gazetteer(Trim(ret.query))
  ELSE /\ ret.merged = mergeAndRankResults(locations, Trim(ret.query), Limit(ret.options))
       /\ ret.results = IF ret.merged # <<>> THEN ret.merged
                        ELSE C2_Gazetteer(Trim(ret.query))

\* C2: a searchLocations call always resolves.  When exactly one backend
\* fails, the call returns what the other backend's locations merge to, the
\* failed backend contributing nothing; when both fail it returns the first
\* five gazetteer entries whose address contains the trimmed query, compared
\* case-insensitively.
C2_BackendFailuresSwallowed ==
  /\ geoLast.settled \in {"none", "resolved"}
  /\ geoLast.path = "fetched" =>
       /\ (~geoLast.photon.ok /\ geoLast.nominatim.ok) =>
            C2_FromSurvivors(NominatimLocations(geoLast.nominatim.items), geoLast)
       /\ (geoLast.photon.ok /\ ~geoLast.nominatim.ok) =>
            C2_FromSurvivors(PhotonLocations(geoLast.photon.features, geoLast.options),
                             geoLast)
       /\ (~geoLast.photon.ok /\ ~geoLast.nominatim.ok) =>
            /\ geoLast.results = C2_Gazetteer(Trim(geoLast.query))
            /\ Len(geoLast.results) <= 5

\* Photon failed, Nominatim answered, and Nominatim's places were returned
C2_Witness ==
  /\ geoLast.path = "fetched"
  /\ ~geoLast.photon.ok
  /\ geoLast.nominatim.ok
  /\ geoLast.results # <<>>
  /\ geoLast.results = geoLast.merged
  /\ \E i \in 1..Len(geoLast.nominatim.items) :
       geoLast.results[1].placeId = geoLast.nominatim.items[i].place_id

\* the normalized key of the claim: lower-cased trimmed address, coordinates
\* (held in 1/100000 degree) rounded to 4 decimal places
C3_Round4(x) == IF x < 0 THEN -RoundDiv(-x, 10) ELSE RoundDiv(x, 10)

C3_Key(location) ==
  <<Trim(ToLower(location.address)), C3_Round4(location.lat), C3_Round4(location.lng)>>

\* the locations handed to mergeAndRankResults by the call that returned
C3_Inputs ==
  PhotonLocations(geoLast.photon.features, geoLast.options)
    \o NominatimLocations(geoLast.nominatim.items)

\* C3: the merged list has no two entries with the same normalized key, and
\* each entry is an input that scores at least as high as every other input
\* with its key; when the limit did not cut the list, every key of an input
\* scoring above the threshold is present.
C3_MergeDeduplicates ==
  (geoLast.path = "fetched" /\ ~geoLast.caught) =>
    LET merged == geoLast.merged
        inputs == C3_Inputs
        query  == Trim(geoLast.query)
    IN /\ \A i, j \in 1..Len(merged) :
            C3_Key(merged[i]) = C3_Key(merged[j]) => i = j
       /\ \A i \in 1..Len(merged) :
            \E a \in 1..Len(inputs) :
              /\ Project(inputs[a]) = merged[i]
              /\ \A b \in 1..Len(inputs) :
                   C3_Key(inputs[b]) = C3_Key(inputs[a]) =>
                     Score(inputs[b], query) <= Score(inputs[a], query)
       /\ Len(merged) < Limit(geoLast.options) =>
            \A b \in 1..Len(inputs) :
              Score(inputs[b], query) > 1000 =>
                \E i \in 1..Len(merged) : C3_Key(merged[i]) = C3_Key(inputs[b])

\* two inputs with one key and different scores, the lower one first, became
\* one entry: the higher-scoring one
C3_Witness ==
  /\ geoLast.path = "fetched"
  /\ ~geoLast.caught
  /\ \E a, b \in 1..Len(C3_Inputs) :
       /\ a < b
       /\ C3_Key(C3_Inputs[a]) = C3_Key(C3_Inputs[b])
       /\ C3_Inputs[a].address # C3_Inputs[b].address
       /\ C3_Inputs[a].lat # C3_Inputs[b].lat
       /\ Score(C3_Inputs[a], Trim(geoLast.query)) < Score(C3_Inputs[b], Trim(geoLast.query))
       /\ \E i \in 1..Len(geoLast.merged) : geoLast.merged[i] = Project(C3_Inputs[b])
       /\ \A i \in 1..Len(geoLast.merged) : geoLast.merged[i] # Project(C3_Inputs[a])
       /\ Len(geoLast.merged) > 1

(***************************************************************************)
(* C4 - C7: the Beckn callback correlation                                 *)
(***************************************************************************)

\* C4: a transaction becomes TIMEOUT only when its fetch_quotes has waited
\* the full 5 seconds without a callback; the fetch then returns no quotes
\* and the compare request still answers with every other provider's offers.
C4_TimeoutReturnsEmpty ==
  /\ [](\A tid \in DOMAIN becknStore :
          becknStore[tid].status = "TIMEOUT" =>
            /\ tid \in DOMAIN becknAnswer
            /\ becknAnswer[tid].quotes = <<>>
            /\ becknAnswer[tid].response = OtherOffers)
  /\ [][\A tid \in DOMAIN becknStore :
          becknStore'[tid].status = "TIMEOUT" /\ becknStore[tid].status # "TIMEOUT" =>
            /\ becknStore[tid].status = "PENDING"
            /\ tid \in DOMAIN becknWait
            /\ becknWait[tid] = BECKN_TIMEOUT
            /\ tid \notin DOMAIN becknWait']_vars

\* a request timed out and was answered with the three mock providers only
C4_Witness ==
  \E tid \in DOMAIN becknAnswer :
    /\ becknStore[tid].status = "TIMEOUT"
    /\ becknAnswer[tid].quotes = <<>>
    /\ Len(becknAnswer[tid].response) = 3

\* C5: the transaction stored under t changes only by a callback carrying t
\* (from PENDING, to the parsed results of that callback) or by the timeout
\* of the request waiting on t; the request waiting on t is answered with the
\* results stored under t.
C5_CallbackCorrelation ==
  /\ [][\A t \in DOMAIN becknStore :
          becknStore'[t] # becknStore[t] =>
            /\ becknStore[t].status = "PENDING"
            /\ \/ /\ becknStore'[t].status = "TIMEOUT"
                  /\ becknReply' = becknReply
               \/ /\ becknReply'.tid = t
                  /\ becknStore'[t].status \in {"COMPLETED", "FAILED"}
                  /\ becknStore'[t].status = "COMPLETED" =>
                       becknStore'[t].results = ParseCatalog(becknReply'.payload.catalog)
                  /\ \A u \in DOMAIN becknStore : u # t => becknStore'[u] = becknStore[u]]_vars
  /\ [](\A t \in DOMAIN becknAnswer :
          /\ becknAnswer[t].quotes = becknStore[t].results
          /\ becknAnswer[t].response = OtherOffers \o becknStore[t].results)

\* two concurrent searches completed with different results, each answered
\* with its own
C5_Witness ==
  /\ DOMAIN becknAnswer = {1, 2}
  /\ becknStore[1].status = "COMPLETED"
  /\ becknStore[2].status = "COMPLETED"
  /\ becknStore[1].results # becknStore[2].results
  /\ becknAnswer[1].quotes = becknStore[1].results
  /\ becknAnswer[2].quotes = becknStore[2].results
  /\ Len(becknAnswer[1].quotes) > Len(becknAnswer[2].quotes)

C7_UnknownNackErrorFailed ==
  /\ [][(becknReply' # becknReply /\ becknReply'.tid \notin DOMAIN becknStore) =>
          (becknReply'.ack = "NACK" /\ becknStore' = becknStore)]_vars
  /\ [][(becknReply' # becknReply /\ becknReply'.tid \in DOMAIN becknStore) =>
          becknReply'.ack = "ACK"]_vars
  /\ [][\A t \in DOMAIN becknStore :
          (becknStore'[t] # becknStore[t] /\ becknStore'[t].status # "TIMEOUT"
             /\ becknReply'.payload.error) =>
            becknStore'[t].status = "FAILED"]_vars

\* an unknown transaction id was just refused while one transaction had
\* failed and another was pending
C7_Witness ==
  /\ becknReply.ack = "NACK"
  /\ becknReply.tid \notin DOMAIN becknStore
  /\ \E t \in DOMAIN becknStore : becknStore[t].status = "FAILED"

(***************************************************************************)
(* C8, C9: cancellation and debouncing in useLocationSearch                *)
(***************************************************************************)

\* C8: a search field has at most one searchLocations call outstanding, and
\* none whose controller has been aborted by a newer search.
C8_AtMostOneOutstanding ==
  /\ Cardinality(hookFetches) <= 1
  /\ \A f \in hookFetches : f.controller \notin hookAborted

\* C9: following a query change the search function is only ever invoked with
\* the query the field holds at that moment, and no sooner than the delay
\* after the query last changed; so a burst of changes leads to one
\* invocation, with its last query.
C9_DebouncedOnce ==
  hookCall.change > 0 =>
    /\ hookCall.arg = hookCall.query
    /\ hookCall.at >= hookCall.lastChange + HookDelay

(***************************************************************************)
(* C11: validation at the form layer                                       *)
(***************************************************************************)

\* C11: onSearch is only ever called with a pickup and a drop-off that are
\* valid locations: numeric latitude within [-90, 90] and longitude within
\* [-180, 180].
C11_OnlyValidLocationsSearched ==
  formCalls > 0 => isValidLocation(formLast.pickup) /\ isValidLocation(formLast.dropoff)

(***************************************************************************)
(* C12: the sorted list of ride options                                    *)
(***************************************************************************)

\* C12: the results of a resolved mock response are in non-decreasing order
\* of price.value, and the results list shows one card per result, the i-th
\* card being that of the i-th result.
C12_ResultsSortedAndRenderedInOrder ==
  farePc = "resolved" =>
    /\ \A i, j \in 1..Len(fareResults) :
         i < j => fareResults[i].value <= fareResults[j].value
    /\ LET cards == ResultsList(fareResults, FALSE)
       IN /\ Len(cards) = Len(fareResults)
          /\ \A i \in 1..Len(cards) :
               /\ cards[i].serviceType = fareResults[i].serviceType
               /\ cards[i].provider = fareResults[i].provider
               /\ cards[i].price = fareResults[i].value

\* a response of at least three results with different prices, which the
\* catalog order of the services would not have sorted
C12_Witness ==
  /\ farePc = "resolved"
  /\ Len(fareResults) >= 3
  /\ fareResults[1].value < fareResults[Len(fareResults)].value
  /\ fareResults # SynthesizeAll(chosenServices(fareReq), fareDist, fareTM, fareTape, fareK)

(***************************************************************************)
(* C13: mergeAndRankResults returns the top-N                              *)
(***************************************************************************)

\* the score of a returned entry: that of the input it was made from (the
\* best one, should several inputs give the same entry)
C13_ScoreOf(entry, inputs, query) ==
  LET scores == {Score(inputs[a], query) :
                   a \in {b \in 1..Len(inputs) : Project(inputs[b]) = entry}}
  IN CHOOSE x \in scores : \A y \in scores : y <= x

\* C13: the merged list has at most limit entries, in non-increasing order
\* of score, each scoring more than 10; an input that is not returned and
\* scores higher than some returned entry has the key of a returned entry.
C13_TopN ==
  (geoLast.path = "fetched" /\ ~geoLast.caught) =>
    LET merged == geoLast.merged
        inputs == C3_Inputs
        query  == Trim(geoLast.query)
    IN /\ Len(merged) <= Limit(geoLast.options)
       /\ \A i \in 1..Len(merged) :
            \E a \in 1..Len(inputs) : Project(inputs[a]) = merged[i]
       /\ \A i \in 1..Len(merged) : C13_ScoreOf(merged[i], inputs, query) > 1000
       /\ \A i, j \in 1..Len(merged) :
            i < j => C13_ScoreOf(merged[i], inputs, query)
                       >= C13_ScoreOf(merged[j], inputs, query)
       /\ \A b \in 1..Len(inputs) :
            (/\ \A i \in 1..Len(merged) : merged[i] # Project(inputs[b])
             /\ \E i \in 1..Len(merged) :
                  Score(inputs[b], query) > C13_ScoreOf(merged[i], inputs, query)) =>
              \E j \in 1..Len(merged) : C3_Key(merged[j]) = C3_Key(inputs[b])

\* the limit cut the list: a place scoring above 10 whose key is not among
\* the returned ones was left out, and so was a higher-scoring duplicate
C13_Witness ==
  /\ geoLast.path = "fetched"
  /\ ~geoLast.caught
  /\ Len(geoLast.merged) = Limit(geoLast.options)
  /\ \E b \in 1..Len(C3_Inputs) :
       /\ Score(C3_Inputs[b], Trim(geoLast.query)) > 1000
       /\ \A j \in 1..Len(geoLast.merged) :
            C3_Key(geoLast.merged[j]) # C3_Key(C3_Inputs[b])
  /\ \E b \in 1..Len(C3_Inputs) :
       /\ \A j \in 1..Len(geoLast.merged) : geoLast.merged[j] # Project(C3_Inputs[b])
       /\ \E j \in 1..Len(geoLast.merged) :
            C3_Key(geoLast.merged[j]) = C3_Key(C3_Inputs[b])

C15_PeakHours == {7, 8, 9, 17, 18, 19, 20}

\* C15: for a request time whose hour is outside the peak windows the traffic
\* multiplier lies in [0.85, 1.05], so it never carries the +0.3 peak premium;
\* for an hour inside a peak window it is at least 1.3.
C15_TrafficMultiplierByHour ==
  farePc # "idle" =>
    IF fareReq.hour \in C15_PeakHours
    THEN fareTM >= 130
    ELSE fareTM >= 85 /\ fareTM <= 105

C15_Witness ==
  /\ farePc = "pending"
  /\ fareReq.hour = 21
  /\ fareReq.day = 6
  /\ fareTM = 105

\* C16: for two points with latitude in [-90,90] and longitude in
\* [-180,180], each of the three distance functions returns a non-negative
\* number, returns the same number when the two points are swapped, and the
\* two calculateDistance helpers return zero for identical points.
C16_DistanceNonNegativeSymmetric ==
  /\ distPc = "helpers" =>
       /\ distHelper.metersFwd # NaN /\ distHelper.metersFwd >= 0
       /\ distHelper.kmFwd # NaN /\ distHelper.kmFwd >= 0
       /\ distHelper.metersFwd = distHelper.metersBwd
       /\ distHelper.kmFwd = distHelper.kmBwd
       /\ distPickup = distDropoff => distHelper.metersFwd = 0 /\ distHelper.kmFwd = 0
  /\ (distPc = "fare" /\ distPickup \in Points /\ distDropoff \in Points) =>
       /\ distKm.fwd # NaN /\ distKm.fwd >= 0
       /\ distKm.fwd = distKm.bwd

\* C20: the distance the synthesizer uses is a number of at least 0.75 km
\* for any pickup and drop-off, identical or missing ones included.
C20_DistanceAtLeastFloor ==
  distPc = "fare" =>
    /\ distKm.fwd # NaN /\ distKm.fwd >= DistanceFloor
    /\ distKm.bwd # NaN /\ distKm.bwd >= DistanceFloor

C17_SameLetter(a, b) ==
  \/ a = b
  \/ a \in 65..90 /\ b = a + 32
  \/ b \in 65..90 /\ a = b + 32

\* text h contains text n at some position, case disregarded
C17_Contains(h, n) ==
  \E k \in 0..(Len(h) - Len(n)) :
    \A j \in 1..Len(n) : C17_SameLetter(h[k + j], n[j])

\* the catalog of the gazetteer that was asked
C17_Catalog == IF gazSource = "hook" THEN hookMockLocations ELSE mockLocations

\* positions of the catalog entries whose address contains the query
C17_Matching == {i \in 1..Len(C17_Catalog) : C17_Contains(C17_Catalog[i].address, gazQuery)}

\* "Connaught Place, New Delhi"
C17_ConnaughtAddress ==
  <<67, 111, 110, 110, 97, 117, 103, 104, 116, 32, 80, 108, 97, 99, 101, 44, 32, 78, 101, 119, 32, 68, 101, 108, 104, 105>>

\* C17: a gazetteer lookup returns exactly the entries whose address contains
\* the query case-insensitively, in catalog order, cut to the first 5; for
\* the query "connaught place" that is exactly one entry, whose address
\* contains "Connaught Place, New Delhi".
C17_GazetteerLookup ==
  gazSource # "none" =>
    /\ Len(gazResult) =
         (IF Cardinality(C17_Matching) < 5 THEN Cardinality(C17_Matching) ELSE 5)
    /\ \A k \in 1..Len(gazResult) :
         \E i \in C17_Matching :
           /\ Cardinality({j \in C17_Matching : j < i}) = k - 1
           /\ gazResult[k] = C17_Catalog[i]
    /\ gazQuery = <<99, 111, 110, 110, 97, 117, 103, 104, 116, 32, 112, 108, 97, 99, 101>> =>
         /\ Len(gazResult) = 1
         /\ \E k \in 0..(Len(gazResult[1].address) - Len(C17_ConnaughtAddress)) :
              SubSeq(gazResult[1].address, k + 1, k + Len(C17_ConnaughtAddress))
                = C17_ConnaughtAddress

C17_Witness ==
  /\ gazSource = "geocoding"
  /\ gazQuery = <<99, 111, 110, 110, 97, 117, 103, 104, 116, 32, 112, 108, 97, 99, 101>>
  /\ Len(gazResult) = 1
  /\ gazResult[1] = mockLocations[1]

\* the number written by a run of decimal digits
RECURSIVE C18_Number(_)
C18_Number(s) ==
  IF s = <<>> THEN 0 ELSE 10 * C18_Number(SubSeq(s, 1, Len(s) - 1)) + (s[Len(s)] - 48)

\* text s is a decimal numeral with exactly six decimals whose value is x
\* (x in 1/100000)
C18_Writes(s, x) ==
  LET neg  == s # <<>> /\ s[1] = 45
      body == IF neg THEN Tail(s) ELSE s
      n    == Len(body)
  IN /\ n >= 8
     /\ body[n - 6] = 46
     /\ \A i \in (1..n) \ {n - 6} : body[i] \in 48..57
     /\ neg <=> x < 0
     /\ C18_Number(SubSeq(body, 1, n - 7)) * 1000000 + C18_Number(SubSeq(body, n - 5, n))
          = 10 * (IF x < 0 THEN 0 - x ELSE x)

\* text s is "<lat>, <lng>" with both numbers written with six decimals
C18_CoordinateString(s, lat, lng) ==
  \E k \in 1..(Len(s) - 1) :
    /\ s[k] = 44
    /\ s[k + 1] = 32
    /\ C18_Writes(SubSeq(s, 1, k - 1), lat)
    /\ C18_Writes(SubSeq(s, k + 2, Len(s)), lng)

\* the request failed, was answered with a non-OK status, or its body has
\* no display_name
C18_Failed ==
  \/ revOutcome.kind \in {"network", "notok", "badjson"}
  \/ revOutcome.kind = "data" /\ (revOutcome.data.isNull \/ revOutcome.data.display_name = NoStr)

\* C18: reverseGeocode never rejects; when the request fails, is answered
\* with a non-OK status or has no display_name it resolves with exactly the
\* input lat and lng and the address "<lat>, <lng>"; getCurrentLocation
\* rejects only while no reverse geocoding has been started (geolocation
\* unsupported or failed).
C18_ReverseGeocodeFailSoft ==
  /\ revInner # "rejected"
  /\ revPc = "rejected" =>
       /\ revVia = "current"
       /\ revOutcome = NoRevOutcome
       /\ revError \in {"Geolocation is not supported by your browser", "Geolocation error"}
  /\ revPc = "resolved" =>
       /\ revResult.lat = revLat
       /\ revResult.lng = revLng
       /\ C18_Failed => C18_CoordinateString(revResult.address, revLat, revLng)

C18_Witness ==
  /\ revPc = "resolved"
  /\ revVia = "current"
  /\ revOutcome.kind = "notok"
  /\ revLat = -50000
  /\ revLng = -12345678
  /\ revResult.address = <<45, 48, 46, 53, 48, 48, 48, 48, 48, 44, 32, 45, 49, 50, 51, 46, 52, 53, 54, 55, 56, 48>>

\* text s is a decimal numeral followed by " mins"; the number it writes
C21_MinsWritten(s) ==
  IF Len(s) >= 6
       /\ SubSeq(s, Len(s) - 4, Len(s)) = <<32, 109, 105, 110, 115>>
       /\ \A i \in 1..(Len(s) - 5) : s[i] \in 48..57
       /\ s[1] # 48
  THEN C18_Number(SubSeq(s, 1, Len(s) - 5))
  ELSE 0 - 1

\* C21: formatDuration returns "Now" below 60 seconds, "1 min" from 60 to
\* below 120 seconds, and "<n> mins" with n = floor(seconds / 60) from 120
\* seconds on.
C21_FormatDuration ==
  fmtPc = "returned" =>
    IF fmtSeconds < 120 THEN fmtText = <<78, 111, 119>>
    ELSE IF fmtSeconds < 240 THEN fmtText = <<49, 32, 109, 105, 110>>
    ELSE LET n == C21_MinsWritten(fmtText)
         IN n >= 2 /\ 120 * n <= fmtSeconds /\ fmtSeconds < 120 * (n + 1)

C21_Witness ==
  /\ fmtPc = "returned"
  /\ fmtSeconds = 120 * 12 + 119
  /\ fmtText = <<49, 50, 32, 109, 105, 110, 115>>

\* C23: isLoading is true for as long as the most recently started search
\* is in flight, whatever older searches complete meanwhile, and is false
\* when no search is in flight.
C23_LoadingWhileNewestInFlight ==
  /\ (\E f \in hookFetches : f.controller = hookController) => hookLoading
  /\ hookFetches = {} => ~hookLoading

\* C22: a search response is applied to suggestions only if, since that
\* search started, no later search has started, the field has not been
\* cleared, no suggestion has been selected and performSearch has not run
\* with a query shortened below 3 characters.
C22_StaleResponseNotApplied ==
  hookSettled.applied => hookSettled.since = {}

(***************************************************************************)
(* C24, C25: the search cache of searchLocations                           *)
(***************************************************************************)

\* the cache key of a call
C24_Key(call) == CacheKey(Trim(call.query), call.options)

\* the step is the return of a call that contacted the backends
C24_Fetched == geoPending' # geoPending /\ geoCalls' = geoCalls

\* the keys of the call that starts in the step
C24_StartedKeys ==
  IF geoCalls' = geoCalls THEN {}
  ELSE IF geoPending' # geoPending THEN {C24_Key(c) : c \in geoPending' \ geoPending}
  ELSE {C24_Key(geoLast')}

\* the call that starts in the step returns the results of entry e and
\* sends no request
C24_ServedFrom(e) ==
  /\ geoPending' = geoPending
  /\ geoLast'.path = "cache"
  /\ geoLast'.results = e.results
  /\ geoLast'.requests = 0

C25_FreshServed ==
  \A e \in searchCache :
    (e.key \in C24_StartedKeys /\ geoNow - e.timestamp < CACHE_DURATION) =>
      C24_ServedFrom(e)

\* the call that starts in the step finds an entry of age CACHE_DURATION or
\* more under its key: nothing is returned yet, the backends are asked
C25_StaleNotServed ==
  \A e \in searchCache :
    (e.key \in C24_StartedKeys /\ geoNow - e.timestamp >= CACHE_DURATION) =>
      /\ geoLast' = geoLast
      /\ \E c \in geoPending' \ geoPending : C24_Key(c) = e.key

\* the entries of age CACHE_DURATION or more under the key of the call that
\* returns in the step
C25_StaleEntries ==
  {e \in searchCache :
     e.key = C24_Key(geoLast') /\ geoNow - e.timestamp >= CACHE_DURATION}

\* the one entry under the key of the call is what the call returned,
\* written now
C25_Replaced ==
  {e \in searchCache' : e.key = C24_Key(geoLast')} =
    {[key |-> C24_Key(geoLast'), results |-> geoLast'.results, timestamp |-> geoNow]}

\* a call whose trimmed query has fewer than 3 characters
C25_ShortReturnsEmpty ==
  (geoCalls' = geoCalls + 1 /\ geoPending' = geoPending
     /\ Len(Trim(geoLast'.query)) < 3) =>
    /\ geoLast'.path = "short"
    /\ geoLast'.results = <<>>
    /\ geoLast'.requests = 0
    /\ searchCache' = searchCache

\* C25 as stated: an entry younger than 5 minutes is returned as it is
\* with no backend request; an entry of age 5 minutes or more is never
\* served and is replaced by what the fresh fetch returns; a query shorter
\* than 3 characters after trimming returns the empty list and leaves the
\* cache alone.
C25_CacheServedOrReplaced ==
  [][ /\ C25_FreshServed
      /\ C25_StaleNotServed
      /\ (C24_Fetched /\ C25_StaleEntries # {}) => C25_Replaced
      /\ C25_ShortReturnsEmpty
    ]_vars

\* C25, amended: as above, except that the entry of age 5 minutes or more
\* is replaced only when the fresh fetch returns from the try block; when
\* merging the fetched locations throws, the catch block returns the
\* gazetteer result and the old entry stays in the cache, still never served.
C25_CacheServedOrReplacedUnlessThrown ==
  [][ /\ C25_FreshServed
      /\ C25_StaleNotServed
      /\ (C24_Fetched /\ C25_StaleEntries # {}) =>
           IF geoLast'.caught THEN searchCache' = searchCache ELSE C25_Replaced
      /\ C25_ShortReturnsEmpty
    ]_vars

\* a call found an entry written exactly CACHE_DURATION earlier, asked the
\* backends again, and the merge threw: the old entry is still in the cache
C25_Witness ==
  /\ geoLast.path = "fetched"
  /\ geoLast.requests = 2
  /\ geoLast.caught
  /\ geoNow = CACHE_DURATION
  /\ \E e \in searchCache : e.key = C24_Key(geoLast) /\ e.timestamp = 0

(***************************************************************************)
(* C26: handleSearch of the rides page                                     *)
(***************************************************************************)

\* a handleSearch call has completed and none is running
C26_Completed == formCalls > 0 /\ formPending = {}

\* C26: after every completed handleSearch isLoading is false and the page
\* is in exactly one of two states: error null and results those of the
\* response, or error a non-empty message and results the empty list.
\* While isLoading is true the form cannot be submitted, so at most one
\* compare request is in flight.
C26_HandleSearchOutcome ==
  /\ C26_Completed =>
       /\ ~formLoading
       /\ IF formSettled.kind = "response"
          THEN formError.isNull /\ formResults = formSettled.results
          ELSE ~formError.isNull /\ Len(formError.message) > 0 /\ formResults = <<>>
  /\ formPending # {} => formLoading
  /\ Cardinality(formPending) <= 1

\* the second search, after a first one, failed with status 503 and a body
\* without message
C26_Witness ==
  /\ formCalls = 2
  /\ formPending = {}
  /\ formSettled.kind = "ApiError"
  /\ formError = ErrorOf(<<72, 84, 84, 80, 32, 53, 48, 51>>)
  /\ formResults = <<>>
  /\ ~formLoading

(***************************************************************************)
(* C27, C28: ThemeProvider                                                 *)
(***************************************************************************)

\* the items that hold a theme: '"dark"' and '"light"'
C27_DarkItem == [present |-> TRUE, text |-> <<34, 100, 97, 114, 107, 34>>]
C27_LightItem == [present |-> TRUE, text |-> <<34, 108, 105, 103, 104, 116, 34>>]

\* C27: setTheme, toggleTheme and a mount that finds a theme in storage
\* make hasUserPreference true, and it stays true; with it true a change
\* event of the OS colour scheme leaves the theme as it is; with it false
\* a change event sets the theme to the OS preference, and a mounted
\* provider without user preference has no item under 'ridemeta-theme'.
C27_ThemePrecedence ==
  [][ /\ themeLast' \in {"setTheme", "toggleTheme"} => themeHasPref'
      /\ (themeLast' = "mount" /\ themeStorage \in {C27_DarkItem, C27_LightItem}) =>
           themeHasPref'
      /\ (themeMounted /\ themeHasPref) => themeHasPref'
      /\ (themeMounted /\ themeOS' # themeOS) =>
           IF themeHasPref THEN themeTheme' = themeTheme
           ELSE themeTheme' = (IF themeOS' THEN Dark ELSE Light)
      /\ (themeMounted' /\ ~themeHasPref') => ~themeStorage'.present
    ]_vars

\* the user chose light, then the OS switched to dark: the theme is light
C27_Witness ==
  /\ themeMounted
  /\ themeHasPref
  /\ themeLast = "change"
  /\ themeOS
  /\ themeTheme = Light
  /\ themeStorage = C27_LightItem

\* the item that holds the theme
C28_ItemOf(theme) == IF theme = Dark THEN C27_DarkItem ELSE C27_LightItem

====
